---- MODULE Spec2Model ----
(***************************************************************************)
(* Model of the Claude Code workspace manager core (workspace_core.py):    *)
(* the JSON document store with its v1 -> v2 migration, the workspace,     *)
(* group, template and history repositories, and import/export.            *)
(*                                                                         *)
(* Representation.                                                         *)
(*  - A Python dict is a TLA+ function; a dict that may lack keys is a     *)
(*    function with a smaller DOMAIN.  d.get(k, dflt) is Get(d, k, dflt).  *)
(*  - Workspace names are sequences of one-character strings, so that      *)
(*    str.strip() and f"{name}-{counter}" are computed, not assumed.       *)
(*    Group names, template ids and the other text fields are never taken  *)
(*    apart by the code and are TLA+ strings.                              *)
(*  - A timestamp (datetime.now().isoformat()) is the value of the clock   *)
(*    `now`, a positive integer; the empty string "" that stands for "no   *)
(*    timestamp" in DEFAULT_WORKSPACE is 0, which is falsy like "".        *)
(*  - None / a missing optional argument is NoneValue.                       *)
(***************************************************************************)
EXTENDS Integers, Sequences, FiniteSets, TLC

VARIABLES
    file,      \* content of WORKSPACES_FILE (~/.claude-workspaces/workspaces.json)
    now,       \* the wall clock read by datetime.now()
    ret,       \* the last call: its name, arguments, outcome and returned value
    written,   \* the file contents written, in order, by the last call
    callers    \* the calls in flight when calls overlap: each caller's position
               \* and the data it holds in memory

vars == <<file, now, ret, written, callers>>

----------------------------------------------------------------------------
(* Bounds of the model *)

MaxTime == 3          \* the clock runs from 2 to MaxTime; 1 dates older data
MaxWorkspaces == 3    \* a call that would store more workspaces is not taken
MaxHistory == 2       \* a call that would store a longer history is not taken
MaxUseCount == 2      \* a launch that would count further is not taken
MaxGroups == 9        \* a stored group map that is drawn has at most this many groups
MaxLines == 3         \* a claude_md_content that is drawn has at most this many lines

----------------------------------------------------------------------------
(* Python dict and str helpers *)

EmptyMap == [k \in {} |-> 0]

NoneValue == "None"

Get(d, k, dflt) == IF k \in DOMAIN d THEN d[k] ELSE dflt

\* d[k] = v
Put(d, k, v) == [x \in DOMAIN d \cup {k} |-> IF x = k THEN v ELSE d[x]]

\* del d[k]
Del(d, k) == [x \in DOMAIN d \ {k} |-> d[x]]

\* {**a, **b}
Merge(a, b) == [x \in DOMAIN a \cup DOMAIN b |-> IF x \in DOMAIN b THEN b[x] ELSE a[x]]

IsSpace(c) == c \in {" ", "\t", "\n"}

RECURSIVE lstrip(_)
lstrip(s) == IF s # <<>> /\ IsSpace(Head(s)) THEN lstrip(Tail(s)) ELSE s

RECURSIVE rstrip(_)
rstrip(s) == IF s # <<>> /\ IsSpace(s[Len(s)]) THEN rstrip(SubSeq(s, 1, Len(s) - 1)) ELSE s

\* str.strip()
strip(s) == rstrip(lstrip(s))

Digits == <<"0", "1", "2", "3", "4", "5", "6", "7", "8", "9">>

\* str(n) for an int n >= 0, as the f-string formats the counter
RECURSIVE str(_)
str(n) == IF n < 10 THEN <<Digits[n + 1]>> ELSE str(n \div 10) \o <<Digits[(n % 10) + 1]>>

\* f"{name}-{counter}"
Suffixed(name, counter) == name \o <<"-">> \o str(counter)

----------------------------------------------------------------------------
(* Configuration *)

GROUP_COLORS ==
    << "#3fb950", "#58a6ff", "#d29922", "#a371f7",
       "#f85149", "#79c0ff", "#d2a8ff", "#7ee787" >>

DEFAULT_WORKSPACE ==
    [ name |-> <<>>,
      description |-> "",
      working_dir |-> "",
      additional_dirs |-> <<>>,
      model |-> "",
      fallback_model |-> "",
      skip_permissions |-> FALSE,
      permission_mode |-> "",
      allowed_tools |-> <<>>,
      disallowed_tools |-> <<>>,
      append_system_prompt |-> "",
      system_prompt_file |-> "",
      mcp_config |-> "",
      strict_mcp |-> FALSE,
      agent |-> "",
      verbose |-> FALSE,
      debug_categories |-> "",
      env_vars |-> EmptyMap,
      ide |-> "terminal",
      open_folder_in_ide |-> FALSE,
      init_claude_md |-> FALSE,
      claude_md_content |-> "",
      created |-> 0,
      last_used |-> 0,
      use_count |-> 0,
      group |-> "",
      template_source |-> "" ]

CommonTools == <<"Read", "Edit", "Write", "Bash", "Glob", "Grep">>

BUILTIN_TEMPLATES ==
    [ x \in {"python-project", "nodejs-project", "react-app", "rust-project", "general"} |->
        CASE x = "python-project" ->
               [ name |-> "Python Project",
                 description |-> "Python development with best practices",
                 icon |-> "python",
                 builtin |-> TRUE,
                 config |->
                   [ model |-> "sonnet",
                     allowed_tools |-> CommonTools,
                     append_system_prompt |-> "This is a Python project. Follow PEP 8 style guidelines and use type hints where appropriate.",
                     init_claude_md |-> TRUE,
                     claude_md_content |-> "# Python Project\n\n## Setup\n- Use virtual environment (venv or conda)\n- Follow PEP 8 style guide\n- Use type hints for function signatures" ] ]
          [] x = "nodejs-project" ->
               [ name |-> "Node.js Project",
                 description |-> "Node.js/npm development setup",
                 icon |-> "nodejs",
                 builtin |-> TRUE,
                 config |->
                   [ model |-> "sonnet",
                     allowed_tools |-> CommonTools,
                     append_system_prompt |-> "This is a Node.js project using npm. Follow modern ES6+ conventions." ] ]
          [] x = "react-app" ->
               [ name |-> "React Application",
                 description |-> "React frontend development",
                 icon |-> "react",
                 builtin |-> TRUE,
                 config |->
                   [ model |-> "sonnet",
                     allowed_tools |-> CommonTools \o <<"WebFetch">>,
                     append_system_prompt |-> "This is a React application. Use functional components and hooks. Follow React best practices." ] ]
          [] x = "rust-project" ->
               [ name |-> "Rust Project",
                 description |-> "Rust development with Cargo",
                 icon |-> "rust",
                 builtin |-> TRUE,
                 config |->
                   [ model |-> "sonnet",
                     allowed_tools |-> CommonTools,
                     append_system_prompt |-> "This is a Rust project using Cargo. Follow Rust idioms and ensure memory safety." ] ]
          [] x = "general" ->
               [ name |-> "General Purpose",
                 description |-> "Basic workspace with common tools",
                 icon |-> "folder",
                 builtin |-> TRUE,
                 config |-> [ allowed_tools |-> CommonTools ] ] ]

DATA_VERSION == 2

----------------------------------------------------------------------------
(* Storage layer.  An `io` is [file, written]: the backing file and the log *)
(* of what the running call has written to it so far.                       *)
(*                                                                          *)
(* file.kind is "absent" (no file), "unparsable" (json.load raises          *)
(* JSONDecodeError, or reading raises IOError), "flat" (a JSON mapping      *)
(* with no "version" key: the v1 map of workspace name -> record) or        *)
(* "versioned" (a JSON mapping with a "version" key), or "array" (well-      *)
(* formed JSON whose top level is a list).  A value of a flat map that is   *)
(* a JSON number and not a record is JsonNumber(n).                         *)

AbsentFile == [kind |-> "absent"]

UnparsableFile == [kind |-> "unparsable"]

FlatFile(old_data) == [kind |-> "flat", old_data |-> old_data]

VersionedFile(data) == [kind |-> "versioned", data |-> data]

ArrayFile(items) == [kind |-> "array", items |-> items]

JsonNumber(n) == [json_number |-> n]

IsJsonNumber(v) == DOMAIN v = {"json_number"}

\* The exception that leaves load_data, NoneValue when it returns.  The try
\* block catches json.JSONDecodeError and IOError only.
\*  - a list: "version" not in data is a membership test; without that item
\*    migrate_v1_to_v2 calls .items() on the list (AttributeError), with it
\*    data[key] = default[key] indexes the list by a string (TypeError);
\*  - a flat map with a number as value: "group" not in ws (TypeError).
Raised(f) ==
    IF f.kind = "array"
    THEN IF "version" \notin {f.items[i] : i \in DOMAIN f.items}
         THEN "AttributeError" ELSE "TypeError"
    ELSE IF f.kind = "flat" /\ \E n \in DOMAIN f.old_data : IsJsonNumber(f.old_data[n])
    THEN "TypeError"
    ELSE NoneValue

get_default_data ==
    [ version |-> DATA_VERSION,
      workspaces |-> EmptyMap,
      groups |-> EmptyMap,
      templates |-> EmptyMap,
      history |-> <<>>,
      settings |-> [history_limit |-> 20] ]

\* Variant of migrate_v1_to_v2 that resets the two v2 fields on every record,
\* also where the record already has them.
migrate_v1_to_v2_resetting(old_data) ==
    Put(get_default_data, "workspaces",
        [n \in DOMAIN old_data |->
            Merge(old_data[n], [group |-> "", template_source |-> ""])])

migrate_v1_to_v2(old_data) ==
    Put(get_default_data, "workspaces",
        [n \in DOMAIN old_data |->
            LET ws == old_data[n]
                ws1 == IF "group" \notin DOMAIN ws THEN Put(ws, "group", "") ELSE ws
            IN IF "template_source" \notin DOMAIN ws1
               THEN Put(ws1, "template_source", "") ELSE ws1])

save_data(io, data) ==
    LET f == VersionedFile(Put(data, "version", DATA_VERSION))
    IN [file |-> f, written |-> Append(io.written, f)]

\* Variant of load_data that replaces an unparsable file by the default
\* document instead of leaving it alone.
load_data_repairing(io) ==
    IF io.file.kind = "absent"
    THEN [io |-> io, data |-> get_default_data, raised |-> NoneValue]
    ELSE IF io.file.kind = "unparsable"
    THEN [io |-> save_data(io, get_default_data), data |-> get_default_data,
          raised |-> NoneValue]
    ELSE IF Raised(io.file) # NoneValue
    THEN [io |-> io, data |-> EmptyMap, raised |-> Raised(io.file)]
    ELSE LET legacy == io.file.kind = "flat"
             data == IF legacy THEN migrate_v1_to_v2(io.file.old_data) ELSE io.file.data
             io1 == IF legacy THEN save_data(io, data) ELSE io
         IN [io |-> io1, data |-> Merge(get_default_data, data), raised |-> NoneValue]

\* On an exception that is not caught nothing is returned and nothing was
\* written: `data` is then empty and `raised` names the exception.
load_data(io) ==
    IF io.file.kind \in {"absent", "unparsable"}
    THEN [io |-> io, data |-> get_default_data, raised |-> NoneValue]
    ELSE IF Raised(io.file) # NoneValue
    THEN [io |-> io, data |-> EmptyMap, raised |-> Raised(io.file)]
    ELSE LET legacy == io.file.kind = "flat"
             data == IF legacy THEN migrate_v1_to_v2(io.file.old_data) ELSE io.file.data
             io1 == IF legacy THEN save_data(io, data) ELSE io
             default == get_default_data
         IN [io |-> io1,
             data |-> [key \in DOMAIN default \cup DOMAIN data |->
                          IF key \notin DOMAIN data THEN default[key] ELSE data[key]],
             raised |-> NoneValue]

load_workspaces(io) ==
    LET l == load_data(io) IN [io |-> l.io, value |-> Get(l.data, "workspaces", EmptyMap)]

save_workspaces(io, workspaces) ==
    LET l == load_data(io) IN save_data(l.io, Put(l.data, "workspaces", workspaces))

\* A call's result: the io it leaves, how it ended, and what it returned.
Result(io, outcome, value) == [io |-> io, outcome |-> outcome, value |-> value]

\* create_workspace without the lookup of the stored `created`
create_workspace_restamping(io, workspace, t) ==
    LET name == strip(Get(workspace, "name", <<>>)) IN
    IF name = <<>>
    THEN Result(io, "ValueError", "Workspace name is required")
    ELSE LET l == load_workspaces(io)
             workspaces == l.value
             ws == Put(Merge(DEFAULT_WORKSPACE, workspace), "created", t)
         IN Result(save_workspaces(l.io, Put(workspaces, name, ws)), "ok", ws)

create_workspace(io, workspace, t) ==
    LET name == strip(Get(workspace, "name", <<>>)) IN
    IF name = <<>>
    THEN Result(io, "ValueError", "Workspace name is required")
    ELSE LET l == load_workspaces(io)
             workspaces == l.value
             ws == Put(Merge(DEFAULT_WORKSPACE, workspace), "created",
                       IF name \notin DOMAIN workspaces
                       THEN t
                       ELSE Get(workspaces[name], "created", t))
         IN Result(save_workspaces(l.io, Put(workspaces, name, ws)), "ok", ws)

delete_workspace(io, name) ==
    LET l == load_workspaces(io) IN
    IF name \in DOMAIN l.value
    THEN Result(save_workspaces(l.io, Del(l.value, name)), "ok", TRUE)
    ELSE Result(l.io, "false", FALSE)

----------------------------------------------------------------------------
(* Groups *)

\* Python truthiness of an optional string argument: None and "" are falsy
Truthy(x) == x \notin {NoneValue, ""}

load_groups(io) ==
    LET l == load_data(io) IN [io |-> l.io, value |-> Get(l.data, "groups", EmptyMap)]

save_groups(io, groups) ==
    LET l == load_data(io) IN save_data(l.io, Put(l.data, "groups", groups))

\* FirstUnused with the test turned around: the first color that is in use
RECURSIVE FirstUnused_inverted(_, _)
FirstUnused_inverted(i, used_colors) ==
    IF i > Len(GROUP_COLORS) THEN GROUP_COLORS[1]
    ELSE IF GROUP_COLORS[i] \in used_colors THEN GROUP_COLORS[i]
    ELSE FirstUnused_inverted(i + 1, used_colors)

RECURSIVE FirstUnused(_, _)
FirstUnused(i, used_colors) ==
    IF i > Len(GROUP_COLORS) THEN GROUP_COLORS[1]
    ELSE IF GROUP_COLORS[i] \notin used_colors THEN GROUP_COLORS[i]
    ELSE FirstUnused(i + 1, used_colors)

get_next_group_color(io) ==
    LET groups == load_groups(io).value
        used_colors == {Get(groups[g], "color", NoneValue) : g \in DOMAIN groups}
    IN FirstUnused(1, used_colors)

\* create_group that picks the color itself also when one is given
create_group_uncolored(io, name, color) ==
    IF ~Truthy(name)
    THEN Result(io, "ValueError", "Group name is required")
    ELSE LET l == load_groups(io)
             groups == l.value
         IN IF name \in DOMAIN groups
            THEN Result(l.io, "ValueError", "Group already exists")
            ELSE LET group == [order |-> Cardinality(DOMAIN groups),
                               color |-> get_next_group_color(l.io)]
                 IN Result(save_groups(l.io, Put(groups, name, group)), "ok", group)

create_group(io, name, color) ==
    IF ~Truthy(name)
    THEN Result(io, "ValueError", "Group name is required")
    ELSE LET l == load_groups(io)
             groups == l.value
         IN IF name \in DOMAIN groups
            THEN Result(l.io, "ValueError", "Group already exists")
            ELSE LET group == [order |-> Cardinality(DOMAIN groups),
                               color |-> IF Truthy(color) THEN color
                                         ELSE get_next_group_color(l.io)]
                 IN Result(save_groups(l.io, Put(groups, name, group)), "ok", group)

\* The web server's handler of POST /api/groups.  The group name is an opaque
\* string here and is given as .strip() leaves it.  data.get('color', ...)
\* takes the color of the payload whenever the payload has the key.
api_create_group(io, data) ==
    LET name == Get(data, "name", "") IN
    IF ~Truthy(name)
    THEN Result(io, "400", "Group name is required")
    ELSE LET l == load_groups(io)
             groups == l.value
         IN IF name \in DOMAIN groups
            THEN Result(l.io, "400", "Group already exists")
            ELSE LET group == [order |-> Cardinality(DOMAIN groups),
                               color |-> Get(data, "color", get_next_group_color(l.io))]
                 IN Result(save_groups(l.io, Put(groups, name, group)), "ok", group)

\* Regroup that stores a fresh record under the new group
Regroup_resetting(workspaces, name, to) ==
    [n \in DOMAIN workspaces |->
        IF "group" \in DOMAIN workspaces[n] /\ workspaces[n].group = name
        THEN Merge(DEFAULT_WORKSPACE, [name |-> n, group |-> to])
        ELSE workspaces[n]]

\* Regroup that leaves every record as it is
Regroup_skipping(workspaces, name, to) ==
    workspaces

\* for ws in workspaces.values(): if ws.get('group') == name: ws['group'] = to
Regroup(workspaces, name, to) ==
    [n \in DOMAIN workspaces |->
        IF "group" \in DOMAIN workspaces[n] /\ workspaces[n].group = name
        THEN Put(workspaces[n], "group", to)
        ELSE workspaces[n]]

\* update_group that saves the regrouped workspaces before looking for the new name
update_group_eager(io, name, new_name, color) ==
    LET l == load_groups(io)
        groups == l.value
    IN IF name \notin DOMAIN groups
       THEN Result(l.io, "false", FALSE)
       ELSE LET renaming == Truthy(new_name) /\ new_name # name
                lw == load_workspaces(l.io)
                io1 == IF renaming
                       THEN save_workspaces(lw.io, Regroup(lw.value, name, new_name))
                       ELSE l.io
            IN IF renaming /\ new_name \in DOMAIN groups
               THEN Result(io1, "ValueError", "Group with new name already exists")
               ELSE LET groups1 == IF renaming
                                   THEN Put(Del(groups, name), new_name, groups[name])
                                   ELSE groups
                        name1 == IF renaming THEN new_name ELSE name
                        groups2 == IF Truthy(color)
                                   THEN Put(groups1, name1, Put(groups1[name1], "color", color))
                                   ELSE groups1
                    IN Result(save_groups(io1, groups2), "ok", TRUE)

update_group(io, name, new_name, color) ==
    LET l == load_groups(io)
        groups == l.value
    IN IF name \notin DOMAIN groups
       THEN Result(l.io, "false", FALSE)
       ELSE LET renaming == Truthy(new_name) /\ new_name # name IN
            IF renaming /\ new_name \in DOMAIN groups
            THEN Result(l.io, "ValueError", "Group with new name already exists")
            ELSE LET groups1 == IF renaming
                                THEN Put(Del(groups, name), new_name, groups[name])
                                ELSE groups
                     lw == load_workspaces(l.io)
                     io1 == IF renaming
                            THEN save_workspaces(lw.io, Regroup(lw.value, name, new_name))
                            ELSE l.io
                     name1 == IF renaming THEN new_name ELSE name
                     groups2 == IF Truthy(color)
                                THEN Put(groups1, name1, Put(groups1[name1], "color", color))
                                ELSE groups1
                 IN Result(save_groups(io1, groups2), "ok", TRUE)

\* delete_group that keeps the group's entry in the group map
delete_group_keeping(io, name) ==
    LET l == load_groups(io)
        groups == l.value
    IN IF name \notin DOMAIN groups
       THEN Result(l.io, "false", FALSE)
       ELSE LET lw == load_workspaces(l.io)
                io1 == save_workspaces(lw.io, Regroup(lw.value, name, ""))
            IN Result(save_groups(io1, groups), "ok", TRUE)

delete_group(io, name) ==
    LET l == load_groups(io)
        groups == l.value
    IN IF name \notin DOMAIN groups
       THEN Result(l.io, "false", FALSE)
       ELSE LET lw == load_workspaces(l.io)
                io1 == save_workspaces(lw.io, Regroup(lw.value, name, ""))
            IN Result(save_groups(io1, Del(groups, name)), "ok", TRUE)

set_workspace_group(io, workspace_name, group_name) ==
    LET l == load_workspaces(io) IN
    IF workspace_name \notin DOMAIN l.value
    THEN Result(l.io, "false", FALSE)
    ELSE Result(save_workspaces(l.io,
                    Put(l.value, workspace_name,
                        Put(l.value[workspace_name], "group", group_name))),
                "ok", TRUE)

----------------------------------------------------------------------------
(* Templates *)

load_templates(io) ==
    LET l == load_data(io)
        user_templates == Get(l.data, "templates", EmptyMap)
    IN [io |-> l.io,
        value |-> Merge(BUILTIN_TEMPLATES,
                        [tid \in DOMAIN user_templates |->
                            Put(user_templates[tid], "builtin", FALSE)])]

save_user_template(io, template_id, template) ==
    LET l == load_data(io)
        templates == Get(l.data, "templates", EmptyMap)
    IN Result(save_data(l.io,
                  Put(l.data, "templates",
                      Put(templates, template_id, Put(template, "builtin", FALSE)))),
              "ok", NoneValue)

delete_user_template(io, template_id) ==
    IF template_id \in DOMAIN BUILTIN_TEMPLATES
    THEN Result(io, "false", FALSE)
    ELSE LET l == load_data(io)
             templates == Get(l.data, "templates", EmptyMap)
         IN IF template_id \in DOMAIN templates
            THEN Result(save_data(l.io, Put(l.data, "templates", Del(templates, template_id))),
                        "ok", TRUE)
            ELSE Result(l.io, "false", FALSE)

\* create_workspace_from_template that lets the overrides win over the forced fields
create_workspace_from_template_unforced(io, template_id, name, working_dir, overrides, t) ==
    LET lt == load_templates(io)
        templates == lt.value
    IN IF template_id \notin DOMAIN templates
       THEN Result(lt.io, "ValueError", "Template not found")
       ELSE LET lw == load_workspaces(lt.io)
                workspaces == lw.value
            IN IF name \in DOMAIN workspaces
               THEN Result(lw.io, "ValueError", "Workspace already exists")
               ELSE LET config == Get(templates[template_id], "config", EmptyMap)
                        forced == Merge(Merge(DEFAULT_WORKSPACE, config),
                                        [ name |-> name,
                                          working_dir |-> working_dir,
                                          template_source |-> template_id,
                                          created |-> t ])
                        workspace == Merge(forced, overrides)
                    IN Result(save_workspaces(lw.io, Put(workspaces, name, workspace)),
                              "ok", workspace)

create_workspace_from_template(io, template_id, name, working_dir, overrides, t) ==
    LET lt == load_templates(io)
        templates == lt.value
    IN IF template_id \notin DOMAIN templates
       THEN Result(lt.io, "ValueError", "Template not found")
       ELSE LET lw == load_workspaces(lt.io)
                workspaces == lw.value
            IN IF name \in DOMAIN workspaces
               THEN Result(lw.io, "ValueError", "Workspace already exists")
               ELSE LET config == Get(templates[template_id], "config", EmptyMap)
                        \* overrides or {}: the argument None is given as EmptyMap
                        merged == Merge(Merge(DEFAULT_WORKSPACE, config), overrides)
                        workspace ==
                            Merge(merged,
                                  [ name |-> name,
                                    working_dir |-> working_dir,
                                    template_source |-> template_id,
                                    created |-> t ])
                    IN Result(save_workspaces(lw.io, Put(workspaces, name, workspace)),
                              "ok", workspace)

----------------------------------------------------------------------------
(* History *)

Min(a, b) == IF a < b THEN a ELSE b

Max(a, b) == IF a > b THEN a ELSE b

\* the Python slice s[:n]
SliceTo(s, n) == SubSeq(s, 1, IF n >= 0 THEN Min(n, Len(s)) ELSE Max(Len(s) + n, 0))

\* add_history_entry without the pruning
add_history_entry_unpruned(io, workspace_name, working_dir, id, t) ==
    LET l == load_data(io)
        history == Get(l.data, "history", <<>>)
        entry == [ id |-> id,
                   workspace_name |-> workspace_name,
                   working_dir |-> working_dir,
                   launched_at |-> t ]
    IN Result(save_data(l.io, Put(l.data, "history", <<entry>> \o history)), "ok", NoneValue)

add_history_entry(io, workspace_name, working_dir, id, t) ==
    LET l == load_data(io)
        history == Get(l.data, "history", <<>>)
        settings == Get(l.data, "settings", EmptyMap)
        limit == Get(settings, "history_limit", 20)
        entry == [ id |-> id,
                   workspace_name |-> workspace_name,
                   working_dir |-> working_dir,
                   launched_at |-> t ]
        inserted == <<entry>> \o history
        pruned == IF Len(inserted) > limit THEN SliceTo(inserted, limit) ELSE inserted
    IN Result(save_data(l.io, Put(l.data, "history", pruned)), "ok", NoneValue)

clear_history(io) ==
    LET l == load_data(io)
    IN Result(save_data(l.io, Put(l.data, "history", <<>>)), "ok", NoneValue)

----------------------------------------------------------------------------
(* Launch: the part of launch_workspace that touches the document.  The   *)
(* launch script and the spawned terminal/IDE are outside the document.   *)

\* os.path.expanduser on the working directories the model uses
expanduser(path) ==
    CASE path = "~" -> "/home/user"
      [] path = "~/proj" -> "/home/user/proj"
      [] OTHER -> path

\* os.getcwd()
getcwd == "/cwd"

\* launch_workspace that does not count the launch
launch_workspace_uncounted(io, name, id, t) ==
    LET l == load_workspaces(io)
        workspaces == l.value
    IN IF name \notin DOMAIN workspaces
       THEN Result(l.io, "false", FALSE)
       ELSE LET ws == Merge(workspaces[name], [last_used |-> t])
                io1 == save_workspaces(l.io, Put(workspaces, name, ws))
                expanded == expanduser(Get(ws, "working_dir", ""))
                working_dir == IF expanded # "" THEN expanded ELSE getcwd
            IN Result(add_history_entry(io1, name, working_dir, id, t).io, "ok", TRUE)

launch_workspace(io, name, id, t) ==
    LET l == load_workspaces(io)
        workspaces == l.value
    IN IF name \notin DOMAIN workspaces
       THEN Result(l.io, "false", FALSE)
       ELSE LET ws == Merge(workspaces[name],
                            [ last_used |-> t,
                              use_count |-> Get(workspaces[name], "use_count", 0) + 1 ])
                io1 == save_workspaces(l.io, Put(workspaces, name, ws))
                expanded == expanduser(Get(ws, "working_dir", ""))
                working_dir == IF expanded # "" THEN expanded ELSE getcwd
            IN Result(add_history_entry(io1, name, working_dir, id, t).io, "ok", TRUE)

----------------------------------------------------------------------------
(* Import / export *)

export_all_workspaces(io, order, t) ==
    LET lw == load_workspaces(io)
        lg == load_groups(lw.io)
    IN Result(lg.io, "ok",
              [ export_version |-> 1,
                export_date |-> t,
                workspaces |-> [i \in 1..Len(order) |-> lw.value[order[i]]],
                groups |-> lg.value ])

\* while new_name in workspaces: new_name = f"{name}-{counter}"; counter += 1
RECURSIVE FirstFreeName(_, _, _)
FirstFreeName(name, counter, workspaces) ==
    IF Suffixed(name, counter) \notin DOMAIN workspaces
    THEN Suffixed(name, counter)
    ELSE FirstFreeName(name, counter + 1, workspaces)

\* One pass of the loop that replaces an existing record also in skip mode
ImportOne_clobbering(acc, ws, conflict_resolution, t) ==
    LET name == Get(ws, "name", <<>>) IN
    IF name = <<>> THEN acc
    ELSE LET renaming == name \in DOMAIN acc.workspaces /\ conflict_resolution = "rename"
             new_name == IF renaming THEN FirstFreeName(name, 1, acc.workspaces) ELSE name
             ws1 == IF renaming THEN Put(ws, "name", new_name) ELSE ws
             merged == Merge(DEFAULT_WORKSPACE, ws1)
             workspace == Put(merged, "created",
                              IF merged.created # 0 THEN merged.created ELSE t)
         IN [ workspaces |-> Put(acc.workspaces, new_name, workspace),
              imported |-> Append(acc.imported, new_name),
              skipped |-> acc.skipped,
              renamed |-> IF renaming THEN Put(acc.renamed, name, new_name)
                          ELSE acc.renamed ]

\* One pass of the loop that skips without listing the name
ImportOne_silent(acc, ws, conflict_resolution, t) ==
    LET name == Get(ws, "name", <<>>) IN
    IF name = <<>> THEN acc
    ELSE IF name \in DOMAIN acc.workspaces /\ conflict_resolution = "skip"
    THEN acc
    ELSE LET renaming == name \in DOMAIN acc.workspaces /\ conflict_resolution = "rename"
             new_name == IF renaming THEN FirstFreeName(name, 1, acc.workspaces) ELSE name
             ws1 == IF renaming THEN Put(ws, "name", new_name) ELSE ws
             merged == Merge(DEFAULT_WORKSPACE, ws1)
             workspace == Put(merged, "created",
                              IF merged.created # 0 THEN merged.created ELSE t)
         IN [ workspaces |-> Put(acc.workspaces, new_name, workspace),
              imported |-> Append(acc.imported, new_name),
              skipped |-> acc.skipped,
              renamed |-> IF renaming THEN Put(acc.renamed, name, new_name)
                          ELSE acc.renamed ]

\* One pass of the loop over import_ws; acc is [workspaces, imported, skipped, renamed].
ImportOne(acc, ws, conflict_resolution, t) ==
    LET name == Get(ws, "name", <<>>) IN
    IF name = <<>> THEN acc
    ELSE IF name \in DOMAIN acc.workspaces /\ conflict_resolution = "skip"
    THEN [acc EXCEPT !.skipped = Append(@, name)]
    ELSE LET renaming == name \in DOMAIN acc.workspaces /\ conflict_resolution = "rename"
             new_name == IF renaming THEN FirstFreeName(name, 1, acc.workspaces) ELSE name
             ws1 == IF renaming THEN Put(ws, "name", new_name) ELSE ws
             merged == Merge(DEFAULT_WORKSPACE, ws1)
             workspace == Put(merged, "created",
                              IF merged.created # 0 THEN merged.created ELSE t)
         IN [ workspaces |-> Put(acc.workspaces, new_name, workspace),
              imported |-> Append(acc.imported, new_name),
              skipped |-> acc.skipped,
              renamed |-> IF renaming THEN Put(acc.renamed, name, new_name)
                          ELSE acc.renamed ]

RECURSIVE ImportLoop(_, _, _, _, _)
ImportLoop(acc, import_ws, i, conflict_resolution, t) ==
    IF i > Len(import_ws) THEN acc
    ELSE ImportLoop(ImportOne(acc, import_ws[i], conflict_resolution, t),
                    import_ws, i + 1, conflict_resolution, t)

\* import_workspaces in which a payload group replaces a stored one
import_workspaces_overriding(io, import_data, conflict_resolution, t) ==
    LET import_ws == Get(import_data, "workspaces", <<>>)
        import_groups == Get(import_data, "groups", EmptyMap)
    IN IF import_ws = <<>>
       THEN Result(io, "ValueError", "No workspaces to import")
       ELSE LET lw == load_workspaces(io)
                lg == load_groups(lw.io)
                acc == ImportLoop([ workspaces |-> lw.value, imported |-> <<>>,
                                    skipped |-> <<>>, renamed |-> EmptyMap ],
                                  import_ws, 1, conflict_resolution, t)
                groups == Merge(lg.value, import_groups)
                io1 == save_workspaces(lg.io, acc.workspaces)
            IN Result(save_groups(io1, groups), "ok",
                      [ imported |-> acc.imported,
                        skipped |-> acc.skipped,
                        renamed |-> acc.renamed ])

import_workspaces(io, import_data, conflict_resolution, t) ==
    LET import_ws == Get(import_data, "workspaces", <<>>)
        import_groups == Get(import_data, "groups", EmptyMap)
    IN IF import_ws = <<>>
       THEN Result(io, "ValueError", "No workspaces to import")
       ELSE LET lw == load_workspaces(io)
                lg == load_groups(lw.io)
                acc == ImportLoop([ workspaces |-> lw.value, imported |-> <<>>,
                                    skipped |-> <<>>, renamed |-> EmptyMap ],
                                  import_ws, 1, conflict_resolution, t)
                groups == Merge(import_groups, lg.value)
                io1 == save_workspaces(lg.io, acc.workspaces)
            IN Result(save_groups(io1, groups), "ok",
                      [ imported |-> acc.imported,
                        skipped |-> acc.skipped,
                        renamed |-> acc.renamed ])

----------------------------------------------------------------------------
(* Calls.  Each action is one whole call of a core function on the current *)
(* backing file, with the clock value it reads.                            *)

\* The bounds: a call whose result would exceed them is not taken.
Within(f) ==
    f.kind = "versioned" =>
        LET workspaces == Get(f.data, "workspaces", EmptyMap) IN
        /\ Cardinality(DOMAIN workspaces) <= MaxWorkspaces
        /\ Len(Get(f.data, "history", <<>>)) <= MaxHistory
        /\ \A n \in DOMAIN workspaces : Get(workspaces[n], "use_count", 0) <= MaxUseCount

Start == [file |-> file, written |-> <<>>]

\* The callers that can be inside a call at the same time: the threads of the
\* web server, or the desktop application and the web server on one file.
Callers == {1, 2}

\* A caller that is not inside a call.
IdleCaller ==
    [ pc |-> "idle",
      op |-> "none",
      arg |-> ("none" :> NoneValue),
      workspaces |-> EmptyMap,
      groups |-> EmptyMap,
      data |-> EmptyMap,
      outcome |-> "none",
      value |-> ("none" :> NoneValue) ]

NoCalls == [c \in Callers |-> IdleCaller]

\* What the last call was and how it ended.  The argument is filed under the
\* operation and the value under the operation (a result) or the outcome (an
\* error message, a False), so that two records of different calls never hold
\* values of different kinds in the same place.
Returned(op, arg, outcome, value) ==
    [ op |-> op,
      outcome |-> outcome,
      arg |-> (op :> arg),
      value |-> ((IF outcome = "ok" THEN op ELSE outcome) :> value) ]

Arg(r) == r.arg[r.op]

Value(r) == r.value[IF r.outcome = "ok" THEN r.op ELSE r.outcome]

Call(op, arg, r) ==
    /\ Within(r.io.file)
    /\ file' = r.io.file
    /\ written' = r.io.written
    /\ ret' = Returned(op, arg, r.outcome, r.value)
    /\ UNCHANGED <<now, callers>>

\* Time passes between calls.
Tick ==
    /\ now < MaxTime
    /\ now' = now + 1
    /\ ret' = Returned("tick", NoneValue, "ok", NoneValue)
    /\ written' = <<>>
    /\ UNCHANGED <<file, callers>>

\* Any read-only entry point (load_workspaces, load_groups, load_history, ...)
LoadData ==
    LET l == load_data(Start)
    IN Call("load_data", file,
            IF l.raised = NoneValue
            THEN Result(l.io, "ok", l.data)
            ELSE Result(l.io, l.raised, NoneValue))

CreateWorkspace(workspace) ==
    Call("create_workspace", workspace, create_workspace(Start, workspace, now))

DeleteWorkspace(name) ==
    Call("delete_workspace", name, delete_workspace(Start, name))

CreateGroup(name, color) ==
    Call("create_group", [name |-> name, color |-> color], create_group(Start, name, color))

ApiCreateGroup(data) ==
    Call("api_create_group", data, api_create_group(Start, data))

UpdateGroup(name, new_name, color) ==
    Call("update_group", [name |-> name, new_name |-> new_name, color |-> color],
         update_group(Start, name, new_name, color))

DeleteGroup(name) ==
    Call("delete_group", name, delete_group(Start, name))

SetWorkspaceGroup(workspace_name, group_name) ==
    Call("set_workspace_group", [workspace_name |-> workspace_name, group_name |-> group_name],
         set_workspace_group(Start, workspace_name, group_name))

SaveUserTemplate(template_id, template) ==
    Call("save_user_template", [template_id |-> template_id, template |-> template],
         save_user_template(Start, template_id, template))

DeleteUserTemplate(template_id) ==
    Call("delete_user_template", template_id, delete_user_template(Start, template_id))

CreateWorkspaceFromTemplate(template_id, name, working_dir, overrides) ==
    Call("create_workspace_from_template",
         [template_id |-> template_id, name |-> name, working_dir |-> working_dir,
          overrides |-> overrides],
         create_workspace_from_template(Start, template_id, name, working_dir, overrides, now))

AddHistoryEntry(workspace_name, working_dir, id) ==
    Call("add_history_entry",
         [workspace_name |-> workspace_name, working_dir |-> working_dir, id |-> id],
         add_history_entry(Start, workspace_name, working_dir, id, now))

ClearHistory ==
    Call("clear_history", NoneValue, clear_history(Start))

LaunchWorkspace(name, id) ==
    Call("launch_workspace", [name |-> name, id |-> id],
         launch_workspace(Start, name, id, now))

ImportWorkspaces(import_data, conflict_resolution) ==
    Call("import_workspaces",
         [import_data |-> import_data, conflict_resolution |-> conflict_resolution],
         import_workspaces(Start, import_data, conflict_resolution, now))

\* The orders in which a dict with key set S can list its values.
Orders(S) ==
    {o \in [1..Cardinality(S) -> S] : \A i, j \in 1..Cardinality(S) : o[i] = o[j] => i = j}

\* export_all_workspaces, then import_workspaces of that payload into an empty
\* store (no backing file) with conflict_resolution = 'overwrite'.  Recorded are
\* the exported workspace map (the argument) and the map the empty store holds
\* afterwards (the value); an import that raises on an empty payload leaves the
\* empty store empty.
ExportImport ==
    \E order \in Orders(DOMAIN load_workspaces(Start).value) :
        LET e == export_all_workspaces(Start, order, now)
            i == import_workspaces([file |-> AbsentFile, written |-> <<>>],
                                   e.value, "overwrite", now)
        IN /\ file' = e.io.file
           /\ written' = e.io.written
           /\ ret' = Returned("export_import", load_workspaces(e.io).value,
                              "ok", load_workspaces(i.io).value)
           /\ UNCHANGED <<now, callers>>

----------------------------------------------------------------------------
(* Inputs *)

NameA == <<"a">>

NameB == <<"b">>

PaddedA == <<" ", "a">>

\* a record as a v1 installation stored it: every field but the two v2 ones
V1Record(name) ==
    [k \in DOMAIN DEFAULT_WORKSPACE \ {"group", "template_source"} |->
        IF k = "name" THEN name ELSE IF k = "created" THEN 1 ELSE DEFAULT_WORKSPACE[k]]

\* a record from an older file that holds only what the user had set
SparseRecord(name) == [name |-> name, working_dir |-> "/p", model |-> "opus"]

\* a record as this version stores it
V2Record(name) == Merge(DEFAULT_WORKSPACE, [name |-> name, created |-> 1])

UserTemplate == [name |-> "Mine", description |-> "", icon |-> "folder",
                 config |-> [model |-> "haiku"]]

HistoryId == "1a2b3c4d"

InitRet == Returned("init", NoneValue, "ok", NoneValue)

\* The persisted Document, as the next call will load it.
Document(f) == load_data([file |-> f, written |-> <<>>]).data

Workspaces(f) == Document(f).workspaces

Groups(f) == Document(f).groups

----------------------------------------------------------------------------
(* SpecLoad: loading every kind of backing file.                           *)

\* the records a file of an earlier installation can hold under a name
LegacyRecords(name) ==
    { V1Record(name),
      SparseRecord(name),
      Put(SparseRecord(name), "group", "g"),
      Merge(V1Record(name), [group |-> "g", template_source |-> "mine"]) }

\* the flat maps over the names a and b
FlatMaps ==
    UNION { { [n \in names |-> IF n = NameA THEN ra ELSE rb] :
                ra \in LegacyRecords(NameA), rb \in LegacyRecords(NameB) } :
            names \in SUBSET {NameA, NameB} }

\* versioned documents: complete, and with top-level keys missing
VersionedDocuments ==
    LET full == Merge(get_default_data,
                      [ workspaces |-> (NameA :> V2Record(NameA)),
                        settings |-> [history_limit |-> 5] ])
    IN { [k \in keys \cup {"version"} |-> full[k]] : keys \in SUBSET DOMAIN get_default_data }

LoadFiles ==
    {AbsentFile, UnparsableFile}
        \cup {FlatFile(m) : m \in FlatMaps}
        \cup {VersionedFile(d) : d \in VersionedDocuments}

InitLoad ==
    /\ file \in LoadFiles
    /\ now = 2
    /\ ret = InitRet
    /\ written = <<>>
    /\ callers = NoCalls

NextLoad ==
    \/ LoadData
    \/ \E workspace \in {[name |-> NameB]} : CreateWorkspace(workspace)

SpecLoad == InitLoad /\ [][NextLoad]_vars

----------------------------------------------------------------------------
(* Properties of loading *)

FreshDocument ==
    [ version |-> 2, workspaces |-> EmptyMap, groups |-> EmptyMap,
      templates |-> EmptyMap, history |-> <<>>, settings |-> [history_limit |-> 20] ]

\* the flat map with group and template_source set to "" where a record lacks them
Backfilled(old_data) ==
    [n \in DOMAIN old_data |->
        [k \in DOMAIN old_data[n] \cup {"group", "template_source"} |->
            IF k \in DOMAIN old_data[n] THEN old_data[n][k] ELSE ""]]

\* C2: loading a file whose top-level mapping has no version key returns the
\* fresh Document with `workspaces` = the flat map, group and template_source
\* backfilled with "" on the records that lacked them and nothing else changed;
\* exactly that Document, stamped with the current version, is written to the
\* file, once; a second load returns the same Document and writes nothing.
C2_MigrationOnLoad ==
    [][ /\ (ret'.op = "load_data" /\ file.kind = "flat") =>
              /\ Value(ret') = [FreshDocument EXCEPT !.workspaces = Backfilled(file.old_data)]
              /\ file' = [kind |-> "versioned", data |-> Value(ret')]
              /\ written' = <<file'>>
              /\ LET again == load_data([file |-> file', written |-> <<>>])
                 IN again.data = Value(ret') /\ again.io.file = file' /\ again.io.written = <<>>
        /\ (ret.op = "load_data" /\ ret'.op = "load_data") =>
              /\ file' = file
              /\ written' = <<>>
              /\ Value(ret') = Value(ret)
      ]_vars

\* a flat file has been loaded: records that lacked the v2 fields, and one that
\* had a group, were migrated and written
C2_Witness ==
    /\ ret.op = "load_data"
    /\ Arg(ret).kind = "flat"
    /\ written = <<file>>
    /\ \E n \in DOMAIN Arg(ret).old_data : "group" \notin DOMAIN Arg(ret).old_data[n]
    /\ \E n \in DOMAIN Arg(ret).old_data :
          /\ "group" \in DOMAIN Arg(ret).old_data[n]
          /\ Arg(ret).old_data[n].group = "g"
          /\ file.data.workspaces[n].group = "g"

\* C8: load returns a fresh Document (current version, empty collections,
\* history_limit 20) when the file is absent and when it cannot be parsed, and
\* does not write: an unparsable file changes only by a call that saves.
C8_LoadFallsBackWithoutWriting ==
    [][ /\ (ret'.op = "load_data" /\ file.kind \in {"absent", "unparsable"}) =>
              /\ Value(ret') = FreshDocument
              /\ file' = file
              /\ written' = <<>>
        /\ (file.kind = "unparsable" /\ file' # file) =>
              /\ ret'.op # "load_data"
              /\ written' # <<>>
      ]_vars

\* an unparsable file has been loaded and is still there
C8_Witness ==
    /\ ret.op = "load_data"
    /\ Arg(ret).kind = "unparsable"
    /\ file.kind = "unparsable"
    /\ Value(ret) = FreshDocument

\* C9: in every persisted Document every workspace record contains every field
\* of the default workspace field set.
C9_FullyPopulated ==
    file.kind = "versioned" =>
        \A n \in DOMAIN Get(file.data, "workspaces", EmptyMap) :
            DOMAIN DEFAULT_WORKSPACE \subseteq DOMAIN file.data.workspaces[n]

----------------------------------------------------------------------------
(* SpecSave: saving and deleting workspace records as time passes.         *)

\* the records offered to create_workspace: bare, with a `created` of their
\* own, with a padded name, with a blank name
SavedRecords ==
    { [name |-> NameA],
      [name |-> NameA, created |-> 9, model |-> "opus"],
      [name |-> PaddedA, created |-> 9],
      [name |-> NameB, created |-> 9],
      [name |-> <<" ">>] }

SaveFiles ==
    { AbsentFile,
      UnparsableFile,
      FlatFile(NameA :> V1Record(NameA)),
      FlatFile(NameA :> SparseRecord(NameA)) }

InitSave ==
    /\ file \in SaveFiles
    /\ now = 2
    /\ ret = InitRet
    /\ written = <<>>
    /\ callers = NoCalls

NextSave ==
    \/ Tick
    \/ \E workspace \in SavedRecords : CreateWorkspace(workspace)
    \/ \E name \in {NameA, NameB} : DeleteWorkspace(name)

SpecSave == InitSave /\ [][NextSave]_vars

\* C1: a successful create_workspace under a name that is in the store leaves
\* that workspace's `created` as it was, whatever `created` the incoming record
\* carries; under a name that is not in the store it sets `created` to the
\* current time.  The name is the stripped incoming name.
C1_CreatedKeptOnSave ==
    [][ (ret'.op = "create_workspace" /\ ret'.outcome = "ok") =>
            LET name == strip(Arg(ret').name)
                before == Workspaces(file)
                after == Workspaces(file')
            IN /\ name \in DOMAIN after
               /\ (name \in DOMAIN before /\ "created" \in DOMAIN before[name]) =>
                      after[name].created = before[name].created
               /\ name \notin DOMAIN before => after[name].created = now'
      ]_vars

\* a record carrying its own `created` was saved over a stored one at a later
\* time: the stored value is neither the incoming one nor the current time
C1_Witness ==
    /\ ret.op = "create_workspace"
    /\ ret.outcome = "ok"
    /\ "created" \in DOMAIN Arg(ret)
    /\ Value(ret).created # Arg(ret).created
    /\ Value(ret).created # now
    /\ file.data.workspaces[strip(Arg(ret).name)].created = Value(ret).created

----------------------------------------------------------------------------
(* SpecGroups: groups created, renamed, recoloured and deleted while       *)
(* workspaces are assigned to them.                                        *)

GroupNames == {"g", "h"}

Colors == {NoneValue, "#ef4444"}

GroupFiles ==
    { AbsentFile,
      \* a legacy record naming a group that the group map does not have
      FlatFile(NameA :> Put(SparseRecord(NameA), "group", "g")),
      VersionedFile(Merge(get_default_data,
          [ workspaces |-> (NameA :> Put(V2Record(NameA), "group", "g")),
            groups |-> ("g" :> [color |-> "#3b82f6", order |-> 0]) ])) }

InitGroups ==
    /\ file \in GroupFiles
    /\ now = 2
    /\ ret = InitRet
    /\ written = <<>>
    /\ callers = NoCalls

\* workspaces are only ever put into group "g" or "k": a record in group "h" got
\* there by a rename, and a record in no group by a delete
NextGroups ==
    \/ \E name \in GroupNames \cup {""}, color \in Colors : CreateGroup(name, color)
    \/ \E name \in GroupNames, new_name \in GroupNames \cup {NoneValue, ""}, color \in Colors :
          UpdateGroup(name, new_name, color)
    \/ \E name \in GroupNames : DeleteGroup(name)
    \/ \E workspace_name \in {NameA, NameB}, group_name \in {"g", "k"} :
          SetWorkspaceGroup(workspace_name, group_name)
    \/ \E workspace \in {[name |-> NameB, group |-> "g"], [name |-> NameA, group |-> "k"]} :
          CreateWorkspace(workspace)

SpecGroups == InitGroups /\ [][NextGroups]_vars

\* the workspaces whose `group` is the given one
Members(f, group) ==
    {n \in DOMAIN Workspaces(f) : Get(Workspaces(f)[n], "group", NoneValue) = group}

\* C3: after a successful update_group(old, new) with new given and different
\* from old, every workspace whose `group` was old has `group` = new, no
\* workspace has `group` = old, the group map contains new and not old.
C3_RenameCascades ==
    [][ ( /\ ret'.op = "update_group"
          /\ ret'.outcome = "ok"
          /\ Truthy(Arg(ret').new_name)
          /\ Arg(ret').new_name # Arg(ret').name ) =>
            /\ Members(file, Arg(ret').name) \subseteq Members(file', Arg(ret').new_name)
            /\ Members(file', Arg(ret').name) = {}
            /\ Arg(ret').new_name \in DOMAIN Groups(file')
            /\ Arg(ret').name \notin DOMAIN Groups(file')
      ]_vars

\* group g was renamed to h while a workspace was in it: the workspace is in h
C3_Witness ==
    /\ ret.op = "update_group"
    /\ ret.outcome = "ok"
    /\ Arg(ret).name = "g"
    /\ Arg(ret).new_name = "h"
    /\ Members(file, "h") # {}
    /\ Len(written) = 2

\* C4: after a successful delete_group(name) the group map does not contain
\* name and every workspace whose `group` was name has `group` = "".
C4_DeleteCascades ==
    [][ (ret'.op = "delete_group" /\ ret'.outcome = "ok") =>
            /\ Arg(ret') \notin DOMAIN Groups(file')
            /\ Members(file, Arg(ret')) \subseteq Members(file', "")
      ]_vars

\* a group with a workspace in it was deleted: the workspace is in no group
C4_Witness ==
    /\ ret.op = "delete_group"
    /\ ret.outcome = "ok"
    /\ Arg(ret) = "g"
    /\ "g" \notin DOMAIN Groups(file)
    /\ Members(file, "") # {}
    /\ Members(file, "g") = {}
    /\ Len(written) = 2

----------------------------------------------------------------------------
(* SpecHistory: launches recorded under every history limit a document can *)
(* carry.                                                                  *)

\* settings.history_limit is read, never written, by the program: its value is
\* whatever the file holds
HistoryLimits == {0, 1, 2}

OldEntry(n) ==
    [id |-> "0a0b0c0d", workspace_name |-> NameA, working_dir |-> "/p", launched_at |-> n]

HistoryFiles ==
    {AbsentFile}
        \cup { VersionedFile(Merge(get_default_data,
                  [settings |-> [history_limit |-> limit], history |-> history])) :
                limit \in HistoryLimits,
                history \in {<<>>, <<OldEntry(1)>>, <<OldEntry(1), OldEntry(0)>>} }
        \cup { VersionedFile([version |-> DATA_VERSION, workspaces |-> EmptyMap]),
               VersionedFile(Put(get_default_data, "settings", EmptyMap)) }

InitHistory ==
    /\ file \in HistoryFiles
    /\ now = 2
    /\ ret = InitRet
    /\ written = <<>>
    /\ callers = NoCalls

NextHistory ==
    \/ Tick
    \/ \E id \in {HistoryId, "9f8e7d6c"} : AddHistoryEntry(NameA, "/p", id)
    \/ ClearHistory
    \/ CreateWorkspace([name |-> NameA])
    \/ LaunchWorkspace(NameA, HistoryId)

SpecHistory == InitHistory /\ [][NextHistory]_vars

\* settings.history_limit as add_history_entry reads it
HistoryLimit(f) == Get(Get(Document(f), "settings", EmptyMap), "history_limit", 20)

History(f) == Get(Document(f), "history", <<>>)

\* the entry a call of add_history_entry builds from its arguments at time t
EntryOf(arg, t) ==
    [ id |-> arg.id, workspace_name |-> arg.workspace_name,
      working_dir |-> arg.working_dir, launched_at |-> t ]

\* C5 (as stated): after every add_history_entry, under any history_limit, the
\* persisted history has at most history_limit entries and the entry just added
\* is at index 0, followed by the previous entries in their previous order.
C5_Original ==
    [][ ret'.op = "add_history_entry" =>
            LET inserted == <<EntryOf(Arg(ret'), now')>> \o History(file)
                after == History(file')
            IN /\ Len(after) <= HistoryLimit(file)
               /\ Len(after) >= 1
               /\ after = SubSeq(inserted, 1, Len(after))
      ]_vars

\* C5 (amended): after every add_history_entry under a history_limit of at
\* least 1, the persisted history is the entry just added followed by the
\* previous entries in their previous order, cut to history_limit entries from
\* the old end; under a history_limit of 0 the persisted history is empty.
C5_HistoryBounded ==
    [][ ret'.op = "add_history_entry" =>
            LET inserted == <<EntryOf(Arg(ret'), now')>> \o History(file)
                after == History(file')
                limit == HistoryLimit(file)
            IN /\ limit >= 1 => after = SubSeq(inserted, 1, Min(limit, Len(inserted)))
               /\ limit = 0 => after = <<>>
      ]_vars

\* an entry was added under limit 2 to a history that was full: two entries,
\* the added one first
C5_Witness ==
    /\ ret.op = "add_history_entry"
    /\ HistoryLimit(file) = 2
    /\ Len(History(file)) = 2
    /\ History(file)[1] = EntryOf(Arg(ret), now)
    /\ History(file)[2].launched_at < now

----------------------------------------------------------------------------
(* SpecRoundTrip: stores built by saves, template creations and launches,  *)
(* exported and imported into an empty store.                              *)

RoundTripFiles ==
    { AbsentFile,
      FlatFile(NameA :> V1Record(NameA)),
      VersionedFile(Put(get_default_data, "workspaces", NameB :> V2Record(NameB))) }

InitRoundTrip ==
    /\ file \in RoundTripFiles
    /\ now = 2
    /\ ret = InitRet
    /\ written = <<>>
    /\ callers = NoCalls

NextRoundTrip ==
    \/ Tick
    \/ \E workspace \in {[name |-> NameA], [name |-> PaddedA], [name |-> NameB, group |-> "g"]} :
          CreateWorkspace(workspace)
    \/ \E name \in {NameB, <<>>} :
          CreateWorkspaceFromTemplate("python-project", name, "/p", EmptyMap)
    \/ \E name \in {NameA, NameB} : DeleteWorkspace(name)
    \/ LaunchWorkspace(NameA, HistoryId)
    \/ ExportImport

SpecRoundTrip == InitRoundTrip /\ [][NextRoundTrip]_vars

\* C6: export_all_workspaces followed by import_workspaces of the payload into
\* an empty store with conflict_resolution = overwrite yields a workspace map
\* equal to the exported one, key for key and field for field.
C6_RoundTrip ==
    ret.op = "export_import" => Value(ret) = Arg(ret)

----------------------------------------------------------------------------
(* SpecErrors: every call that can be refused, on stores where it is and   *)
(* where it is not.                                                        *)

ErrorFiles ==
    { AbsentFile,
      FlatFile(NameA :> Put(SparseRecord(NameA), "group", "g")),
      VersionedFile(Merge(get_default_data,
          [ workspaces |-> (NameA :> Put(V2Record(NameA), "group", "g")),
            groups |-> ("g" :> [color |-> "#3b82f6", order |-> 0]) ])) }

InitErrors ==
    /\ file \in ErrorFiles
    /\ now = 2
    /\ ret = InitRet
    /\ written = <<>>
    /\ callers = NoCalls

NextErrors ==
    \/ \E workspace \in {[name |-> NameB], [name |-> <<" ">>], EmptyMap} :
          CreateWorkspace(workspace)
    \/ \E name \in {NameA, NameB} : DeleteWorkspace(name)
    \/ \E name \in {"g", "h", ""} : CreateGroup(name, NoneValue)
    \/ \E name \in {"g", "h"}, new_name \in {"g", "h"} : UpdateGroup(name, new_name, NoneValue)
    \/ \E name \in {"g", "h"} : DeleteGroup(name)
    \/ \E workspace_name \in {NameA, NameB} : SetWorkspaceGroup(workspace_name, "g")
    \/ SaveUserTemplate("mine", UserTemplate)
    \/ \E template_id \in {"mine", "python-project"} : DeleteUserTemplate(template_id)
    \/ \E template_id \in {"mine", "gone"}, name \in {NameA, NameB} :
          CreateWorkspaceFromTemplate(template_id, name, "/p", EmptyMap)
    \/ \E import_data \in {EmptyMap, [workspaces |-> <<>>], [workspaces |-> <<[name |-> NameA]>>]} :
          ImportWorkspaces(import_data, "skip")

SpecErrors == InitErrors /\ [][NextErrors]_vars

\* the operations that can be refused
Refusable ==
    { "create_workspace", "create_group", "update_group", "delete_group",
      "set_workspace_group", "create_workspace_from_template", "delete_user_template",
      "delete_workspace", "import_workspaces" }

\* C7: when one of these operations ends in a raised error or a False result,
\* the persisted Document is what it was before the call; the file itself is
\* rewritten only if it was a legacy file, by the migration of the load.
C7_NoPartialMutation ==
    [][ (ret'.op \in Refusable /\ ret'.outcome \in {"ValueError", "false"}) =>
            /\ Document(file') = Document(file)
            /\ file.kind # "flat" => (file' = file /\ written' = <<>>)
      ]_vars

\* renaming group g to the existing group h was refused while a workspace was
\* in g: the workspace is still in g and both groups are still there
C7_Witness ==
    /\ ret.op = "update_group"
    /\ ret.outcome = "ValueError"
    /\ Arg(ret).name = "g"
    /\ Members(file, "g") # {}
    /\ {"g", "h"} \subseteq DOMAIN Groups(file)
    /\ written = <<>>

----------------------------------------------------------------------------
(* Spec: the life of the workspaces of a store under saves, imports, group *)
(* changes and launches, at a time later than the stored `created`.        *)
(* Workspace a is in the store from the start and is never deleted;        *)
(* imports in rename mode add a-1, a-2.                                    *)

Files ==
    { FlatFile(NameA :> V1Record(NameA)),
      VersionedFile(Merge(get_default_data,
          [ workspaces |-> (NameA :> Put(V2Record(NameA), "group", "g")),
            groups |-> ("g" :> [color |-> "#3b82f6", order |-> 0]) ])) }

\* payloads: a record carrying a `created` of its own, and a record without
ImportPayloads ==
    { [workspaces |-> <<[name |-> NameA, created |-> 9]>>,
       groups |-> ("g" :> [color |-> "#22c55e", order |-> 0])],
      [workspaces |-> <<[name |-> NameA]>>] }

ConflictModes == {"skip", "rename", "overwrite"}

Init ==
    /\ file \in Files
    /\ now = 2
    /\ ret = InitRet
    /\ written = <<>>
    /\ callers = NoCalls

Next ==
    \/ CreateWorkspace([name |-> NameA, created |-> 9])
    \/ DeleteWorkspace(Suffixed(NameA, 1))
    \/ \E import_data \in ImportPayloads, conflict_resolution \in ConflictModes :
          ImportWorkspaces(import_data, conflict_resolution)
    \/ SetWorkspaceGroup(NameA, "g")
    \/ \E name \in GroupNames : UpdateGroup(name, "h", NoneValue)
    \/ DeleteGroup("h")
    \/ LaunchWorkspace(NameA, HistoryId)

Spec == Init /\ [][Next]_vars

\* the names that stay in the store over a step with a `created` value to keep
Staying == {n \in DOMAIN Workspaces(file) \cap DOMAIN Workspaces(file') :
                "created" \in DOMAIN Workspaces(file)[n]}

\* C10 (as stated): for as long as a name stays in the store, the `created`
\* value of its workspace does not change, whatever operation is called.
C10_Original ==
    [][ \A n \in Staying : Workspaces(file')[n].created = Workspaces(file)[n].created ]_vars

\* the positions of a payload that carry the given name
Carrying(import_data, n) ==
    {i \in DOMAIN import_data.workspaces : Get(import_data.workspaces[i], "name", <<>>) = n}

\* C10 (amended): for as long as a name stays in the store, the `created` value
\* of its workspace does not change under save, set group, group rename, group
\* delete, launch and import with skip or rename; an import with overwrite
\* whose payload carries the name replaces it by the `created` of the last
\* payload record of that name, or by the current time if that is empty.
C10_CreatedImmutable ==
    [][ \A n \in Staying :
            LET overwriting == /\ ret'.op = "import_workspaces"
                               /\ ret'.outcome = "ok"
                               /\ Arg(ret').conflict_resolution = "overwrite"
                               /\ Carrying(Arg(ret').import_data, n) # {}
            IN IF overwriting
               THEN LET hits == Carrying(Arg(ret').import_data, n)
                        last == CHOOSE i \in hits : \A j \in hits : j <= i
                        incoming == Get(Arg(ret').import_data.workspaces[last], "created", 0)
                    IN Workspaces(file')[n].created = (IF incoming # 0 THEN incoming ELSE now')
               ELSE Workspaces(file')[n].created = Workspaces(file)[n].created
      ]_vars

\* a payload naming workspace a was imported in rename mode: a kept its
\* `created`, the payload's value went to the record stored under a-1
C10_Witness ==
    /\ ret.op = "import_workspaces"
    /\ ret.outcome = "ok"
    /\ Arg(ret).conflict_resolution = "rename"
    /\ NameA \in DOMAIN Value(ret).renamed
    /\ Workspaces(file)[NameA].created = 1
    /\ Workspaces(file)[Value(ret).renamed[NameA]].created = 9

----------------------------------------------------------------------------
(* Keys of the workspace map *)

\* C11: in every persisted Document each key of the workspaces map equals the
\* `name` field of the record stored under it.
C11_KeyIsName ==
    \A n \in DOMAIN Workspaces(file) :
        /\ "name" \in DOMAIN Workspaces(file)[n]
        /\ Workspaces(file)[n].name = n

\* C12: in every persisted Document no key of the workspaces map is the empty
\* string.
C12_NoEmptyKey ==
    <<>> \notin DOMAIN Workspaces(file)

----------------------------------------------------------------------------
(* SpecTemplates: workspaces created from built-in and user templates,     *)
(* with and without overrides.                                             *)

\* overrides: none, one field, and one that also names the forced fields
TemplateOverrides ==
    { EmptyMap,
      [model |-> "opus"],
      [ name |-> NameB, working_dir |-> "/o", template_source |-> "general",
        created |-> 9, verbose |-> TRUE ] }

TemplateFiles ==
    { AbsentFile,
      VersionedFile(Put(get_default_data, "templates",
                        "mine" :> Put(UserTemplate, "builtin", FALSE))) }

InitTemplates ==
    /\ file \in TemplateFiles
    /\ now = 2
    /\ ret = InitRet
    /\ written = <<>>
    /\ callers = NoCalls

NextTemplates ==
    \/ Tick
    \/ \E template_id \in {"mine", "python-project"} : SaveUserTemplate(template_id, UserTemplate)
    \/ \E template_id \in {"mine", "python-project"} : DeleteUserTemplate(template_id)
    \/ \E template_id \in {"mine", "python-project", "general", "gone"},
          working_dir \in {"/p", ""}, overrides \in TemplateOverrides :
          CreateWorkspaceFromTemplate(template_id, NameA, working_dir, overrides)
    \/ DeleteWorkspace(NameA)

SpecTemplates == InitTemplates /\ [][NextTemplates]_vars

\* the templates as load_templates returns them from the file
Templates(f) == load_templates([file |-> f, written |-> <<>>]).value

\* C13: a successful create_workspace_from_template stores (and returns) a
\* record in which name, working_dir, template_source (= template_id) and
\* created (= now) are the forced values and every other field is the override
\* value if overrides has it, else the value of the template's config if the
\* config has it, else the default; from the built-in template python-project
\* with no overrides the record has model = sonnet.
C13_TemplateMerge ==
    [][ (ret'.op = "create_workspace_from_template" /\ ret'.outcome = "ok") =>
            LET a == Arg(ret')
                template == Templates(file)[a.template_id]
                config == Get(template, "config", EmptyMap)
                record == Workspaces(file')[a.name]
            IN /\ record = Value(ret')
               /\ DOMAIN record =
                      DOMAIN DEFAULT_WORKSPACE \cup DOMAIN config \cup DOMAIN a.overrides
               /\ record.name = a.name
               /\ record.working_dir = a.working_dir
               /\ record.template_source = a.template_id
               /\ record.created = now'
               /\ \A k \in DOMAIN record \ {"name", "working_dir", "template_source", "created"} :
                      record[k] = IF k \in DOMAIN a.overrides THEN a.overrides[k]
                                  ELSE IF k \in DOMAIN config THEN config[k]
                                  ELSE DEFAULT_WORKSPACE[k]
               /\ (a.template_id = "python-project" /\ template.builtin /\ a.overrides = EmptyMap) =>
                      (record.model = "sonnet" /\ record.template_source = "python-project")
      ]_vars

\* a workspace was created from the user template with overrides that name the
\* forced fields: the forced values are stored, the other override is applied,
\* the model comes from the template
C13_Witness ==
    /\ ret.op = "create_workspace_from_template"
    /\ ret.outcome = "ok"
    /\ Arg(ret).template_id = "mine"
    /\ "name" \in DOMAIN Arg(ret).overrides
    /\ Arg(ret).overrides.name # Arg(ret).name
    /\ Workspaces(file)[Arg(ret).name].name = Arg(ret).name
    /\ Workspaces(file)[Arg(ret).name].created = now
    /\ Workspaces(file)[Arg(ret).name].verbose = TRUE
    /\ Workspaces(file)[Arg(ret).name].model = "haiku"

\* the user templates of the persisted Document
UserTemplates(f) == Get(Document(f), "templates", EmptyMap)

\* C14: in every persisted Document no user template is stored under an id
\* that is also a built-in template id.
C14_NoShadowedBuiltin ==
    DOMAIN UserTemplates(file) \cap DOMAIN BUILTIN_TEMPLATES = {}

----------------------------------------------------------------------------
(* The command line.  The argument vector is a sequence of words; a word   *)
(* that is fixed text (the program name, a flag, a field value the code    *)
(* passes on as it is) is Word(text), and a directory, which the code      *)
(* strips, is Dir(characters).                                             *)

Word(text) == [word |-> text]

Dir(d) == [dir |-> d]

\* if ws.get(field): cmd.extend([flag, ws[field]])
WithValue(ws, field, flag) ==
    IF field \in DOMAIN ws /\ ws[field] # "" THEN <<Word(flag), Word(ws[field])>> ELSE <<>>

\* if ws.get(field): cmd.append(flag)
Switch(ws, field, flag) ==
    IF field \in DOMAIN ws /\ ws[field] THEN <<Word(flag)>> ELSE <<>>

\* for tool in tools: cmd.extend([flag, tool])
RECURSIVE PerTool(_, _)
PerTool(tools, flag) ==
    IF tools = <<>> THEN <<>>
    ELSE <<Word(flag), Word(Head(tools))>> \o PerTool(Tail(tools), flag)

\* the loop over the directories that passes each one on as it is written
RECURSIVE PerDir_unstripped(_)
PerDir_unstripped(dirs) ==
    IF dirs = <<>> THEN <<>>
    ELSE (IF strip(Head(dirs)) # <<>>
          THEN <<Word("--add-dir"), Dir(Head(dirs))>>
          ELSE <<>>) \o PerDir_unstripped(Tail(dirs))

\* for d in dirs: if d.strip(): cmd.extend(["--add-dir", d.strip()])
RECURSIVE PerDir(_)
PerDir(dirs) ==
    IF dirs = <<>> THEN <<>>
    ELSE (IF strip(Head(dirs)) # <<>>
          THEN <<Word("--add-dir"), Dir(strip(Head(dirs)))>>
          ELSE <<>>) \o PerDir(Tail(dirs))

\* build_command with the agent flag ahead of the MCP flags
build_command_reordered(ws) ==
    <<Word("claude")>>
        \o WithValue(ws, "model", "--model")
        \o WithValue(ws, "fallback_model", "--fallback-model")
        \o Switch(ws, "skip_permissions", "--dangerously-skip-permissions")
        \o WithValue(ws, "permission_mode", "--permission-mode")
        \o PerTool(Get(ws, "allowed_tools", <<>>), "--allowedTools")
        \o PerTool(Get(ws, "disallowed_tools", <<>>), "--disallowedTools")
        \o WithValue(ws, "append_system_prompt", "--append-system-prompt")
        \o WithValue(ws, "system_prompt_file", "--system-prompt-file")
        \o WithValue(ws, "agent", "--agent")
        \o WithValue(ws, "mcp_config", "--mcp-config")
        \o Switch(ws, "strict_mcp", "--strict-mcp-config")
        \o Switch(ws, "verbose", "--verbose")
        \o WithValue(ws, "debug_categories", "--debug")
        \o PerDir(Get(ws, "additional_dirs", <<>>))

build_command(ws) ==
    <<Word("claude")>>
        \o WithValue(ws, "model", "--model")
        \o WithValue(ws, "fallback_model", "--fallback-model")
        \o Switch(ws, "skip_permissions", "--dangerously-skip-permissions")
        \o WithValue(ws, "permission_mode", "--permission-mode")
        \o PerTool(Get(ws, "allowed_tools", <<>>), "--allowedTools")
        \o PerTool(Get(ws, "disallowed_tools", <<>>), "--disallowedTools")
        \o WithValue(ws, "append_system_prompt", "--append-system-prompt")
        \o WithValue(ws, "system_prompt_file", "--system-prompt-file")
        \o WithValue(ws, "mcp_config", "--mcp-config")
        \o Switch(ws, "strict_mcp", "--strict-mcp-config")
        \o WithValue(ws, "agent", "--agent")
        \o Switch(ws, "verbose", "--verbose")
        \o WithValue(ws, "debug_categories", "--debug")
        \o PerDir(Get(ws, "additional_dirs", <<>>))

\* build_command is called with the workspace that was picked for the launch
BuildCommand ==
    /\ ret.op = "picked"
    /\ ret' = Returned("build_command", Arg(ret), "ok", build_command(Arg(ret)))
    /\ written' = <<>>
    /\ UNCHANGED <<file, now, callers>>

----------------------------------------------------------------------------
(* SpecCommand: build_command on workspaces with every choice of the       *)
(* fields that are set.                                                    *)

\* the fields build_command reads, with a value that counts as set
SetValues ==
    [ model |-> "opus", fallback_model |-> "sonnet", skip_permissions |-> TRUE,
      permission_mode |-> "plan", allowed_tools |-> <<"Read", "Bash">>,
      disallowed_tools |-> <<"Write">>, append_system_prompt |-> "Be brief.",
      system_prompt_file |-> "/p/prompt.md", mcp_config |-> "/p/mcp.json",
      strict_mcp |-> TRUE, agent |-> "reviewer", verbose |-> TRUE,
      debug_categories |-> "api,hooks" ]

\* additional_dirs: none, plain, padded and blank entries
DirLists ==
    { <<>>,
      << <<"/", "d">> >>,
      << <<" ", " ">> >>,
      << <<" ", "/", "d", " ">>, <<" ">>, <<>>, <<"/", "e">> >> }

\* full records with any of the fields set, and records that hold few keys
CommandWorkspaces ==
    { Merge(DEFAULT_WORKSPACE,
            [k \in chosen \cup {"additional_dirs"} |->
                IF k = "additional_dirs" THEN dirs ELSE SetValues[k]]) :
        chosen \in SUBSET DOMAIN SetValues, dirs \in DirLists }
    \cup { EmptyMap,
           [model |-> "opus", allowed_tools |-> <<"Read", "Bash">>],
           [additional_dirs |-> << <<"/", "d", " ">> >>] }

InitCommand ==
    /\ file = AbsentFile
    /\ now = 2
    /\ ret \in {Returned("picked", ws, "ok", NoneValue) : ws \in CommandWorkspaces}
    /\ written = <<>>
    /\ callers = NoCalls

NextCommand == BuildCommand

SpecCommand == InitCommand /\ [][NextCommand]_vars

\* the flags in their order: field, flag, and whether the flag takes the
\* field's value, stands alone, or is repeated per list entry
FlagOrder ==
    << <<"model", "--model", "value">>,
       <<"fallback_model", "--fallback-model", "value">>,
       <<"skip_permissions", "--dangerously-skip-permissions", "alone">>,
       <<"permission_mode", "--permission-mode", "value">>,
       <<"allowed_tools", "--allowedTools", "each">>,
       <<"disallowed_tools", "--disallowedTools", "each">>,
       <<"append_system_prompt", "--append-system-prompt", "value">>,
       <<"system_prompt_file", "--system-prompt-file", "value">>,
       <<"mcp_config", "--mcp-config", "value">>,
       <<"strict_mcp", "--strict-mcp-config", "alone">>,
       <<"agent", "--agent", "value">>,
       <<"verbose", "--verbose", "alone">>,
       <<"debug_categories", "--debug", "value">> >>

\* the words the i-th flag contributes for ws
Contribution(ws, i) ==
    LET field == FlagOrder[i][1]
        flag == FlagOrder[i][2]
        kind == FlagOrder[i][3]
    IN IF field \notin DOMAIN ws THEN <<>>
       ELSE CASE kind = "value" -> IF ws[field] = "" THEN <<>>
                                   ELSE <<Word(flag), Word(ws[field])>>
              [] kind = "alone" -> IF ws[field] THEN <<Word(flag)>> ELSE <<>>
              [] kind = "each" ->
                    [j \in 1..(2 * Len(ws[field])) |->
                        IF j % 2 = 1 THEN Word(flag) ELSE Word(ws[field][j \div 2])]

RECURSIVE Contributions(_, _)
Contributions(ws, i) ==
    IF i > Len(FlagOrder) THEN <<>> ELSE Contribution(ws, i) \o Contributions(ws, i + 1)

\* the entries of additional_dirs that are not blank, trimmed, in list order
TrimmedDirs(ws) ==
    LET kept == SelectSeq(Get(ws, "additional_dirs", <<>>), LAMBDA d : strip(d) # <<>>)
    IN [j \in 1..Len(kept) |-> strip(kept[j])]

\* C15: build_command returns the program name, then the flags of the fields
\* that are set in the fixed order model, fallback model, skip-permissions,
\* permission mode, allowed tools, disallowed tools, append-system-prompt,
\* system-prompt-file, mcp-config, strict-mcp-config, agent, verbose, debug,
\* then the add-dir entries and nothing else; a workspace with only model and
\* allowed_tools yields the program name, --model <model> and the
\* --allowedTools pairs.
C15_CommandOrder ==
    ret.op = "build_command" =>
        LET ws == Arg(ret)
            cmd == Value(ret)
            flags == Contributions(ws, 1)
        IN /\ cmd[1] = Word("claude")
           /\ SubSeq(cmd, 2, 1 + Len(flags)) = flags
           /\ Len(cmd) = 1 + Len(flags) + 2 * Len(TrimmedDirs(ws))
           /\ \A j \in (2 + Len(flags))..Len(cmd) : cmd[j] \in {Word("--add-dir")} \/ "dir" \in DOMAIN cmd[j]
           /\ DOMAIN ws = {"model", "allowed_tools"} =>
                  cmd = << Word("claude"), Word("--model"), Word(ws.model),
                           Word("--allowedTools"), Word(ws.allowed_tools[1]),
                           Word("--allowedTools"), Word(ws.allowed_tools[2]) >>

\* a command was built for a workspace with every field set
C15_Witness ==
    /\ ret.op = "build_command"
    /\ \A k \in DOMAIN SetValues : k \in DOMAIN Arg(ret) /\ Arg(ret)[k] = SetValues[k]
    /\ Len(Value(ret)) = 26

\* the positions of cmd that hold a directory
DirPositions(cmd) == {j \in DOMAIN cmd : "dir" \in DOMAIN cmd[j]}

\* C16: build_command emits one `--add-dir <dir>` pair for each entry of
\* additional_dirs that is non-blank after trimming, in list order and with
\* the trimmed value, and nothing for an entry that is empty or blank.
C16_AddDirs ==
    ret.op = "build_command" =>
        LET cmd == Value(ret)
            dirs == TrimmedDirs(Arg(ret))
            first == Len(cmd) - 2 * Len(dirs)
        IN /\ Cardinality(DirPositions(cmd)) = Len(dirs)
           /\ Cardinality({j \in DOMAIN cmd : cmd[j] = Word("--add-dir")}) = Len(dirs)
           /\ \A i \in 1..Len(dirs) :
                  /\ cmd[first + 2 * i - 1] = Word("--add-dir")
                  /\ cmd[first + 2 * i] = Dir(dirs[i])

\* a command was built from a list with a padded, a blank, an empty and a
\* plain entry: two pairs, the first with the trimmed directory
C16_Witness ==
    /\ ret.op = "build_command"
    /\ Len(Get(Arg(ret), "additional_dirs", <<>>)) = 4
    /\ Arg(ret).additional_dirs[1] # strip(Arg(ret).additional_dirs[1])
    /\ Cardinality(DirPositions(Value(ret))) = 2
    /\ Value(ret)[Len(Value(ret)) - 2] = Dir(strip(Arg(ret).additional_dirs[1]))

----------------------------------------------------------------------------
(* SpecImport: payloads with new, colliding, repeated and empty names and  *)
(* with groups, imported in every mode.                                    *)

ImportFiles ==
    { AbsentFile,
      VersionedFile(Merge(get_default_data,
          [ workspaces |-> (NameA :> Put(V2Record(NameA), "group", "g")),
            groups |-> ("g" :> [color |-> "#3b82f6", order |-> 0]) ])) }

ImportedPayloads ==
    { [ workspaces |-> <<[name |-> NameA, model |-> "opus"]>>,
        groups |-> [ g |-> [color |-> "#22c55e", order |-> 5],
                     h |-> [color |-> "#ef4444", order |-> 1] ] ],
      [ workspaces |-> <<[name |-> NameA, created |-> 9], [name |-> NameA]>> ],
      [ workspaces |-> <<[name |-> NameB], [name |-> <<>>], [name |-> NameB, created |-> 9]>> ],
      [ workspaces |-> <<>>, groups |-> [h |-> [color |-> "#ef4444", order |-> 1]] ] }

InitImport ==
    /\ file \in ImportFiles
    /\ now = 2
    /\ ret = InitRet
    /\ written = <<>>
    /\ callers = NoCalls

NextImport ==
    \/ Tick
    \/ \E import_data \in ImportedPayloads, conflict_resolution \in ConflictModes :
          ImportWorkspaces(import_data, conflict_resolution)
    \/ DeleteWorkspace(NameA)

SpecImport == InitImport /\ [][NextImport]_vars

\* the names of the payload records that the loop does not pass over
PayloadNames(import_data) ==
    LET named == SelectSeq(Get(import_data, "workspaces", <<>>),
                           LAMBDA ws : Get(ws, "name", <<>>) # <<>>)
    IN [i \in 1..Len(named) |-> named[i].name]

Range(seq) == {seq[i] : i \in DOMAIN seq}

\* C17: a successful import_workspaces with conflict_resolution = skip leaves
\* every workspace that was in the store before the call unchanged, lists in
\* `skipped` every payload name that was in the store before the call, and
\* lists none of them in `imported`.
C17_SkipKeepsExisting ==
    [][ ( /\ ret'.op = "import_workspaces"
          /\ ret'.outcome = "ok"
          /\ Arg(ret').conflict_resolution = "skip" ) =>
            LET before == Workspaces(file)
                after == Workspaces(file')
                names == Range(PayloadNames(Arg(ret').import_data))
            IN /\ \A n \in DOMAIN before : n \in DOMAIN after /\ after[n] = before[n]
               /\ \A n \in names \cap DOMAIN before :
                      /\ n \in Range(Value(ret').skipped)
                      /\ n \notin Range(Value(ret').imported)
      ]_vars

\* a payload naming the stored workspace a, with another model, was imported
\* in skip mode: a is listed as skipped and its record is not the payload's
C17_Witness ==
    /\ ret.op = "import_workspaces"
    /\ ret.outcome = "ok"
    /\ Arg(ret).conflict_resolution = "skip"
    /\ Value(ret).skipped = <<NameA>>
    /\ Value(ret).imported = <<>>
    /\ Arg(ret).import_data.workspaces[1].model = "opus"
    /\ Workspaces(file)[NameA].model = ""

\* the smallest N >= 1 for which name-N is not among the taken names
SmallestFree(name, taken) ==
    LET N == CHOOSE n \in 1..(Cardinality(taken) + 1) :
                 /\ Suffixed(name, n) \notin taken
                 /\ \A m \in 1..(n - 1) : Suffixed(name, m) \in taken
    IN Suffixed(name, N)

\* C18: a successful import_workspaces with conflict_resolution = rename
\* stores each payload workspace whose name is in the store at that moment
\* under name-N for the smallest N >= 1 with name-N not in the store, leaves
\* the workspaces that were in the store unchanged, and `renamed` holds the
\* pair old -> new for every workspace that was renamed, also when the
\* payload carries a name more than once.
C18_RenameImport ==
    [][ ( /\ ret'.op = "import_workspaces"
          /\ ret'.outcome = "ok"
          /\ Arg(ret').conflict_resolution = "rename" ) =>
            LET before == Workspaces(file)
                after == Workspaces(file')
                names == PayloadNames(Arg(ret').import_data)
                imported == Value(ret').imported
                renamed == Value(ret').renamed
                taken(i) == DOMAIN before \cup {imported[j] : j \in 1..(i - 1)}
            IN /\ Len(imported) = Len(names)
               /\ \A i \in DOMAIN names :
                      /\ imported[i] = IF names[i] \in taken(i)
                                        THEN SmallestFree(names[i], taken(i))
                                        ELSE names[i]
                      /\ imported[i] \in DOMAIN after
                      /\ imported[i] # names[i] =>
                             /\ names[i] \in DOMAIN renamed
                             /\ renamed[names[i]] = imported[i]
               /\ \A n \in DOMAIN before : n \in DOMAIN after /\ after[n] = before[n]
      ]_vars

\* C19: import_workspaces, in every mode, leaves the record of every group
\* that was in the store before the call as it was; when it succeeds the group
\* map is the old one plus the payload groups whose names it did not hold.
C19_GroupsKept ==
    [][ ret'.op = "import_workspaces" =>
            LET before == Groups(file)
                after == Groups(file')
                import_groups == Get(Arg(ret').import_data, "groups", EmptyMap)
            IN /\ \A g \in DOMAIN before : g \in DOMAIN after /\ after[g] = before[g]
               /\ ret'.outcome = "ok" =>
                      /\ DOMAIN after = DOMAIN before \cup DOMAIN import_groups
                      /\ \A g \in DOMAIN import_groups \ DOMAIN before :
                             after[g] = import_groups[g]
               /\ ret'.outcome # "ok" => after = before
      ]_vars

\* a payload with a group g of another colour and a new group h was imported
\* into a store that held g: g kept its colour and h was added
C19_Witness ==
    /\ ret.op = "import_workspaces"
    /\ ret.outcome = "ok"
    /\ "groups" \in DOMAIN Arg(ret).import_data
    /\ {"g", "h"} \subseteq DOMAIN Arg(ret).import_data.groups
    /\ Groups(file)["g"].color = "#3b82f6"
    /\ Arg(ret).import_data.groups["g"].color # "#3b82f6"
    /\ Groups(file)["h"] = Arg(ret).import_data.groups["h"]

----------------------------------------------------------------------------
(* Launches *)

\* C20 (as stated): a successful launch_workspace(name) increases the
\* workspace's use_count by 1, sets its last_used to the current time and
\* prepends one history entry carrying the name; a launch of a name that is
\* not in the store returns False and leaves the persisted Document unchanged.
C20_Original ==
    [][ ret'.op = "launch_workspace" =>
            LET name == Arg(ret').name
                before == History(file)
                after == History(file')
            IN IF ret'.outcome = "ok"
               THEN /\ Workspaces(file')[name].use_count =
                          Get(Workspaces(file)[name], "use_count", 0) + 1
                    /\ Workspaces(file')[name].last_used = now'
                    /\ Len(after) >= 1
                    /\ after[1].workspace_name = name
                    /\ SubSeq(after, 2, Len(after)) = SubSeq(before, 1, Len(after) - 1)
               ELSE /\ Value(ret') = FALSE
                    /\ name \notin DOMAIN Workspaces(file)
                    /\ file' = file
      ]_vars

\* C20 (amended): a successful launch_workspace(name) increases the
\* workspace's use_count by 1 and sets its last_used to the current time;
\* under a history_limit of at least 1 the history becomes one entry carrying
\* the name followed by the previous entries, cut to history_limit, and under
\* a history_limit of 0 it is empty; a launch of a name that is not in the
\* store returns False and leaves the persisted Document unchanged.
C20_LaunchRecorded ==
    [][ ret'.op = "launch_workspace" =>
            LET name == Arg(ret').name
                before == History(file)
                after == History(file')
                limit == HistoryLimit(file)
            IN IF ret'.outcome = "ok"
               THEN /\ Workspaces(file')[name].use_count =
                          Get(Workspaces(file)[name], "use_count", 0) + 1
                    /\ Workspaces(file')[name].last_used = now'
                    /\ limit >= 1 =>
                          /\ Len(after) = Min(limit, Len(before) + 1)
                          /\ after[1].workspace_name = name
                          /\ after[1].id = Arg(ret').id
                          /\ after[1].launched_at = now'
                          /\ SubSeq(after, 2, Len(after)) = SubSeq(before, 1, Len(after) - 1)
                    /\ limit = 0 => after = <<>>
               ELSE /\ Value(ret') = FALSE
                    /\ name \notin DOMAIN Workspaces(file)
                    /\ file' = file
                    /\ written' = <<>>
      ]_vars

\* workspace a was launched a second time, at a later time than the entry that
\* is now second in the history
C20_Witness ==
    /\ ret.op = "launch_workspace"
    /\ ret.outcome = "ok"
    /\ Workspaces(file)[NameA].use_count = 2
    /\ Workspaces(file)[NameA].last_used = now
    /\ Len(History(file)) = 2
    /\ History(file)[1].workspace_name = NameA
    /\ History(file)[1].launched_at = now
    /\ History(file)[2].launched_at < now
    /\ Len(written) = 2

----------------------------------------------------------------------------
(* Overlapping calls.  Nothing locks the backing file, so between two file  *)
(* accesses of one call another caller can read or write the file.  A call  *)
(* is taken apart at its file accesses: the read of load_data, and in       *)
(* save_data the open(..., 'w') that empties the file and the json.dump     *)
(* that fills it.  What a caller holds in memory between two accesses is in *)
(* callers[c].                                                              *)

Moved(c, pc, fields) == [callers EXCEPT ![c] = Merge(Merge(callers[c], fields), [pc |-> pc])]

\* create_workspace up to its call of save_workspaces: the name check, the read
\* of load_workspaces and the record put into the loaded map
EnterCreateWorkspace(c, workspace) ==
    LET name == strip(Get(workspace, "name", <<>>))
        l == load_workspaces(Start)
        workspaces == l.value
        ws == Put(Merge(DEFAULT_WORKSPACE, workspace), "created",
                  IF name \notin DOMAIN workspaces
                  THEN now
                  ELSE Get(workspaces[name], "created", now))
        call == [op |-> "create_workspace", arg |-> ("create_workspace" :> workspace)]
    IN /\ callers[c].pc = "idle"
       /\ file' = l.io.file
       /\ written' = written \o l.io.written
       /\ callers' = IF name = <<>>
                     THEN Moved(c, "done", Merge(call,
                              [outcome |-> "ValueError",
                               value |-> ("ValueError" :> "Workspace name is required")]))
                     ELSE Moved(c, "save_workspaces", Merge(call,
                              [workspaces |-> Put(workspaces, name, ws),
                               value |-> ("create_workspace" :> ws)]))
       /\ UNCHANGED <<now, ret>>

\* create_group up to the choice of the color: the name check, the read of
\* load_groups and the check for an existing group
EnterCreateGroup(c, name, color) ==
    LET l == load_groups(Start)
        groups == l.value
        call == [op |-> "create_group",
                 arg |-> ("create_group" :> [name |-> name, color |-> color])]
        group == [order |-> Cardinality(DOMAIN groups), color |-> color]
    IN /\ callers[c].pc = "idle"
       /\ file' = IF Truthy(name) THEN l.io.file ELSE file
       /\ written' = IF Truthy(name) THEN written \o l.io.written ELSE written
       /\ callers' = IF ~Truthy(name)
                     THEN Moved(c, "done", Merge(call,
                              [outcome |-> "ValueError",
                               value |-> ("ValueError" :> "Group name is required")]))
                     ELSE IF name \in DOMAIN groups
                     THEN Moved(c, "done", Merge(call,
                              [outcome |-> "ValueError",
                               value |-> ("ValueError" :> "Group already exists")]))
                     ELSE Moved(c, IF Truthy(color) THEN "save_groups" ELSE "get_next_group_color",
                                Merge(call,
                                      [groups |-> Put(groups, name, group),
                                       value |-> ("create_group" :> group)]))
       /\ UNCHANGED <<now, ret>>

\* color or get_next_group_color(): the second read of the groups, and the
\* group record put into the map loaded by the first
GetNextGroupColor(c) ==
    LET name == callers[c].arg["create_group"].name
        l == load_groups(Start)
        group == [order |-> callers[c].value["create_group"].order,
                  color |-> get_next_group_color(Start)]
    IN /\ callers[c].pc = "get_next_group_color"
       /\ file' = l.io.file
       /\ written' = written \o l.io.written
       /\ callers' = Moved(c, "save_groups",
                           [groups |-> Put(callers[c].groups, name, group),
                            value |-> ("create_group" :> group)])
       /\ UNCHANGED <<now, ret>>

\* The save that writes back the document as loaded, without the caller's map
SaveLoad_unassigned(c) ==
    LET l == load_data(Start)
    IN /\ callers[c].pc \in {"save_workspaces", "save_groups"}
       /\ file' = l.io.file
       /\ written' = written \o l.io.written
       /\ callers' = Moved(c, "save_data", [data |-> Put(l.data, "version", DATA_VERSION)])
       /\ UNCHANGED <<now, ret>>

\* save_workspaces and save_groups up to their call of save_data: the read of
\* load_data and the caller's map put into the loaded document
SaveLoad(c) ==
    LET l == load_data(Start)
        data == IF callers[c].pc = "save_workspaces"
                THEN Put(l.data, "workspaces", callers[c].workspaces)
                ELSE Put(l.data, "groups", callers[c].groups)
    IN /\ callers[c].pc \in {"save_workspaces", "save_groups"}
       /\ file' = l.io.file
       /\ written' = written \o l.io.written
       /\ callers' = Moved(c, "save_data", [data |-> Put(data, "version", DATA_VERSION)])
       /\ UNCHANGED <<now, ret>>

\* save_data: open(WORKSPACES_FILE, 'w') empties the file; until json.dump has
\* written it, json.load of it raises JSONDecodeError
SaveOpen(c) ==
    /\ callers[c].pc = "save_data"
    /\ file' = UnparsableFile
    /\ callers' = Moved(c, "json_dump", EmptyMap)
    /\ UNCHANGED <<now, ret, written>>

\* save_data: json.dump writes the document the caller holds, and the call
\* returns
SaveDump(c) ==
    LET io == save_data([file |-> file, written |-> written], callers[c].data)
    IN /\ callers[c].pc = "json_dump"
       /\ file' = io.file
       /\ written' = io.written
       /\ callers' = Moved(c, "done", [outcome |-> "ok"])
       /\ ret' = Returned(callers[c].op, callers[c].arg[callers[c].op], "ok",
                          callers[c].value[callers[c].op])
       /\ UNCHANGED now

----------------------------------------------------------------------------
(* SpecRace: two callers, each making one call, their file accesses         *)
(* interleaved in every order.                                              *)

\* the workspace and the group that caller c creates
RaceName(c) == IF c = 1 THEN NameA ELSE NameB

RaceGroup(c) == IF c = 1 THEN "g" ELSE "h"

RaceFiles ==
    { AbsentFile,
      VersionedFile(Merge(get_default_data,
          [ workspaces |-> (<<"c">> :> V2Record(<<"c">>)),
            groups |-> [k |-> [order |-> 0, color |-> GROUP_COLORS[1]]] ])) }

InitRace ==
    /\ file \in RaceFiles
    /\ now = 2
    /\ ret = InitRet
    /\ written = <<>>
    /\ callers = NoCalls

NextRace ==
    \E c \in Callers :
        \/ EnterCreateWorkspace(c, [name |-> RaceName(c)])
        \/ \E color \in {NoneValue, "#ffffff"} : EnterCreateGroup(c, RaceGroup(c), color)
        \/ GetNextGroupColor(c)
        \/ SaveLoad(c)
        \/ SaveOpen(c)
        \/ SaveDump(c)

SpecRace == InitRace /\ [][NextRace]_vars

\* the change that caller c's call makes is in the persisted Document
Changed(c) ==
    IF callers[c].op = "create_workspace"
    THEN /\ RaceName(c) \in DOMAIN Workspaces(file)
         /\ Workspaces(file)[RaceName(c)] = callers[c].value["create_workspace"]
    ELSE /\ RaceGroup(c) \in DOMAIN Groups(file)
         /\ Groups(file)[RaceGroup(c)] = callers[c].value["create_group"]

BothSucceeded == \A c \in Callers : callers[c].pc = "done" /\ callers[c].outcome = "ok"

\* C21: when two overlapping calls have both reported success, the file is
\* whole the document that one of them held in memory when it saved (the
\* later save), with that caller's change in it; the other caller's change is
\* in the file only if it was in that document.  The execution in which it is
\* not is reached (C21_Witness).
C21_LastWriteWins ==
    BothSucceeded =>
        \E c \in Callers :
            /\ file = VersionedFile(callers[c].data)
            /\ Changed(c)

\* both calls reported success and the workspace created by caller 1 is not in
\* the persisted Document, while the one created by caller 2 is
C21_Witness ==
    /\ BothSucceeded
    /\ callers[1].op = "create_workspace"
    /\ callers[2].op = "create_workspace"
    /\ ~Changed(1)
    /\ NameA \notin DOMAIN Workspaces(file)
    /\ Changed(2)

----------------------------------------------------------------------------
(* SpecLoadAny: loading a backing file of any content.                     *)

\* well-formed JSON that is not a map of records
MalformedFiles ==
    { ArrayFile(<<>>),
      ArrayFile(<<"a">>),
      ArrayFile(<<"version">>),
      FlatFile(NameA :> JsonNumber(5)),
      FlatFile((NameA :> V1Record(NameA)) @@ (NameB :> JsonNumber(5))) }

InitLoadAny ==
    /\ file \in LoadFiles \cup MalformedFiles
    /\ now = 2
    /\ ret = InitRet
    /\ written = <<>>
    /\ callers = NoCalls

NextLoadAny == LoadData

SpecLoadAny == InitLoadAny /\ [][NextLoadAny]_vars

\* C22: load returns a Document and never raises, whatever the backing file
\* holds: no file, unparsable text, JSON whose top level is not a mapping, a
\* legacy mapping whose values are not records, a versioned Document with
\* top-level keys missing.
C22_LoadNeverRaises ==
    ret.op = "load_data" =>
        /\ ret.outcome = "ok"
        /\ DOMAIN get_default_data \subseteq DOMAIN Value(ret)

----------------------------------------------------------------------------
(* Saves per call *)

\* C23: a call saves its whole effect in one write: no write of a call but
\* its last one changes the persisted Document, so that no Document with only
\* part of the call's effect is ever in the file (a group rename with the
\* workspaces already under the new name and the group map still holding the
\* old one).  A write that only stores a legacy file in its migrated form
\* leaves the Document as it was and is not such a write.
C23_OneSave ==
    [][ \A i \in 1..(Len(written') - 1) : Document(written'[i]) = Document(file) ]_vars

----------------------------------------------------------------------------
(* What the group operations leave alone *)

\* the record without its `group`
Ungrouped(ws) == [k \in DOMAIN ws \ {"group"} |-> ws[k]]

\* the workspace map without the `group` of each record
AllUngrouped(workspaces) == [n \in DOMAIN workspaces |-> Ungrouped(workspaces[n])]

\* C24: delete_group and update_group, however they end, leave the set of
\* workspace names as it was and every field of every record other than
\* `group` as it was.
C24_GroupOpsFrame ==
    [][ ret'.op \in {"update_group", "delete_group"} =>
            AllUngrouped(Workspaces(file')) = AllUngrouped(Workspaces(file))
      ]_vars

\* a group was renamed or deleted while a workspace with a creation time was
\* in it and a second workspace was not: the first one's group is another
\* now, and its creation time is still there
C24_Witness ==
    /\ ret.op \in {"update_group", "delete_group"}
    /\ ret.outcome = "ok"
    /\ Len(written) = 2
    /\ Cardinality(DOMAIN Workspaces(file)) = 2
    /\ \E n \in DOMAIN Workspaces(file) :
          /\ Get(Workspaces(file)[n], "group", NoneValue) \in {"h", ""}
          /\ Get(Workspaces(file)[n], "created", 0) >= 1
          /\ Workspaces(written[1])[n] = Workspaces(file)[n]

----------------------------------------------------------------------------
(* SpecColors: creating a group in stores whose groups use the palette in  *)
(* every way that takes at most MaxGroups groups.                          *)

GroupNamePool ==
    << "g01", "g02", "g03", "g04", "g05", "g06", "g07", "g08",
       "g09", "g10", "g11", "g12", "g13", "g14", "g15", "g16",
       "g17", "g18", "g19", "g20", "g21", "g22", "g23", "g24",
       "g25", "g26", "g27", "g28", "g29", "g30", "g31", "g32" >>

\* the most groups of one color in a map of MaxGroups groups that uses every
\* palette color
PerColor == MaxGroups - Len(GROUP_COLORS) + 1

RECURSIVE Sum(_, _)
Sum(uses, i) == IF i = 0 THEN 0 ELSE uses[i] + Sum(uses, i - 1)

\* the group map in which palette color i is the color of uses[i] groups
PaletteGroups(uses) ==
    LET slots == {<<i, j>> \in (1..Len(GROUP_COLORS)) \X (1..PerColor) : j <= uses[i]}
        index(slot) == (slot[1] - 1) * PerColor + slot[2]
    IN [name \in {GroupNamePool[index(slot)] : slot \in slots} |->
           LET slot == CHOOSE sl \in slots : GroupNamePool[index(sl)] = name
           IN [color |-> GROUP_COLORS[slot[1]], order |-> index(slot) - 1]]

ColorFiles ==
    { VersionedFile(Put(get_default_data, "groups", PaletteGroups(uses))) :
        uses \in {u \in [1..Len(GROUP_COLORS) -> 0..PerColor] :
                     Sum(u, Len(GROUP_COLORS)) <= MaxGroups} }

InitColors ==
    /\ file \in ColorFiles
    /\ now = 2
    /\ ret = InitRet
    /\ written = <<>>
    /\ callers = NoCalls

NextColors ==
    \/ \E color \in {NoneValue, "", "#ef4444"} : CreateGroup("new", color)
    \/ \E data \in {[name |-> "new"], [name |-> "new", color |-> ""],
                     [name |-> "new", color |-> GROUP_COLORS[2]]} : ApiCreateGroup(data)

SpecColors == InitColors /\ [][NextColors]_vars

\* the number of groups that have the color
Uses(groups, color) ==
    Cardinality({g \in DOMAIN groups : Get(groups[g], "color", NoneValue) = color})

Palette == {GROUP_COLORS[i] : i \in 1..Len(GROUP_COLORS)}

\* the call r creates a group without a color: the core function with color
\* None or "", the web handler with a payload that has no `color`
Uncolored(r) ==
    \/ r.op = "create_group" /\ ~Truthy(Arg(r).color)
    \/ r.op = "api_create_group" /\ "color" \notin DOMAIN Arg(r)

\* C25 (as stated): a group created without a color gets a palette color that
\* no palette color is used less than, whatever groups exist.
C25_Original ==
    [][ (ret'.outcome = "ok" /\ Uncolored(ret')) =>
            /\ Value(ret').color \in Palette
            /\ \A other \in Palette :
                  Uses(Groups(file), Value(ret').color) <= Uses(Groups(file), other)
      ]_vars

\* C25 (amended): a group created without a color gets a palette color; while
\* some palette color is used by no group it gets one of those, which no color
\* is used less than; when every palette color is in use it gets the first
\* palette entry, however many groups use it.
C25_LeastUsedWhileFree ==
    [][ (ret'.outcome = "ok" /\ Uncolored(ret')) =>
            /\ Value(ret').color \in Palette
            /\ Groups(file')[Arg(ret').name].color = Value(ret').color
            /\ IF \E free \in Palette : Uses(Groups(file), free) = 0
               THEN Uses(Groups(file), Value(ret').color) = 0
               ELSE Value(ret').color = GROUP_COLORS[1]
      ]_vars

\* a group was created without a color while every palette color was in use,
\* the first one by more groups than another: it got the first one
C25_Witness ==
    /\ ret.outcome = "ok"
    /\ Uncolored(ret)
    /\ \A color \in Palette : Uses(Groups(file), color) >= 1
    /\ Uses(Groups(file), GROUP_COLORS[1]) = 3
    /\ Uses(Groups(file), GROUP_COLORS[2]) = 1
    /\ Groups(file)["new"].color = GROUP_COLORS[1]

\* the positions of the palette colors that no group has
Free(groups) == {i \in 1..Len(GROUP_COLORS) : Uses(groups, GROUP_COLORS[i]) = 0}

\* C26: a group created without a color is stored with the first palette
\* entry, in palette order, that no group of the store has, and with the first
\* palette entry when the groups have them all; a group created with a color
\* is stored with that color.
C26_FirstFreeColor ==
    [][ (ret'.op \in {"create_group", "api_create_group"} /\ ret'.outcome = "ok") =>
            LET stored == Groups(file')[Arg(ret').name].color
                free == Free(Groups(file))
            IN /\ stored = Value(ret').color
               /\ IF ~Uncolored(ret')
                  THEN stored = Arg(ret').color
                  ELSE IF free = {}
                  THEN stored = GROUP_COLORS[1]
                  ELSE stored = GROUP_COLORS[CHOOSE i \in free : \A j \in free : i <= j]
      ]_vars

\* a group was created without a color while the first two palette colors and
\* the fourth were in use and the third and fifth were not: it has the third
C26_Witness ==
    /\ ret.outcome = "ok"
    /\ Uncolored(ret)
    /\ Uses(Groups(file), GROUP_COLORS[1]) >= 1
    /\ Uses(Groups(file), GROUP_COLORS[2]) >= 1
    /\ Uses(Groups(file), GROUP_COLORS[4]) >= 1
    /\ Uses(Groups(file), GROUP_COLORS[5]) = 0
    /\ Groups(file)[Arg(ret).name].color = GROUP_COLORS[3]
    /\ Uses(Groups(file), GROUP_COLORS[3]) = 1

----------------------------------------------------------------------------
(* Launch scripts.  A script is the sequence of its lines ("\n".join(lines)  *)
(* read line by line) and a line is a sequence of pieces: a piece is one    *)
(* character that a shell gives a meaning to (a quote, a space where it     *)
(* matters, a parenthesis) or a run of text without such characters.  The   *)
(* claude_md_content of a workspace is here the sequence of its lines, the  *)
(* empty string being one empty line.                                       *)

EmptyText == << <<>> >>

\* `not s` for a str given as pieces
IsEmptyStr(s) == \A i \in DOMAIN s : s[i] = ""

\* s.replace(from, to), `from` one character and `to` pieces
RECURSIVE Replace(_, _, _)
Replace(s, from, to) ==
    IF s = <<>> THEN <<>>
    ELSE (IF Head(s) = from THEN to ELSE <<Head(s)>>) \o Replace(Tail(s), from, to)

shell_quote(s) ==
    IF IsEmptyStr(s) THEN <<"'", "'">>
    ELSE <<"'">> \o Replace(s, "'", <<"'", "\"", "'", "\"", "'">>) \o <<"'">>

win_quote(s) ==
    IF IsEmptyStr(s) THEN <<"\"", "\"">>
    ELSE IF \E i \in DOMAIN s : s[i] \in {" ", "\""}
    THEN <<"\"">> \o Replace(s, "\"", <<"\"", "\"">>) \o <<"\"">>
    ELSE s

\* a word of the command line as pieces
Pieces(c) == IF "word" \in DOMAIN c THEN <<c.word>> ELSE c.dir

\* " ".join(quote(c) for c in cmd), the first word as it is when `bare`
RECURSIVE JoinQuoted(_, _, _)
JoinQuoted(cmd, i, windows) ==
    IF i > Len(cmd) THEN <<>>
    ELSE (IF i > 1 THEN <<" ">> ELSE <<>>)
         \o (IF windows THEN win_quote(Pieces(cmd[i]))
             ELSE IF i > 1 THEN shell_quote(Pieces(cmd[i])) ELSE Pieces(cmd[i]))
         \o JoinQuoted(cmd, i + 1, windows)

\* os.path.expanduser(ws.get('working_dir', '')) or os.getcwd()
WorkingDir(ws) ==
    LET expanded == expanduser(Get(ws, "working_dir", ""))
    IN IF expanded # "" THEN expanded ELSE getcwd

\* os.path.join(working_dir, "CLAUDE.md"), for a directory that does not end
\* in a separator
ClaudeMdPath(ws) == <<WorkingDir(ws), "/", "CLAUDE.md">>

\* ws.get('init_claude_md') and ws.get('claude_md_content')
WantsClaudeMd(ws) ==
    /\ Get(ws, "init_claude_md", FALSE)
    /\ Get(ws, "claude_md_content", EmptyText) # EmptyText

\* the lines for the environment variables; the order of the export lines is
\* the order of the dict, one of the orders of its keys
RECURSIVE EnvLines(_, _, _)
EnvLines(env_vars, keys, windows) ==
    IF keys = {} THEN <<>>
    ELSE LET key == CHOOSE k \in keys : TRUE
         IN << IF windows
               THEN <<"set \"", key, "=", env_vars[key], "\"">>
               ELSE <<"export ", key, "=">> \o shell_quote(<<env_vars[key]>>) >>
            \o EnvLines(env_vars, keys \ {key}, windows)

build_launch_script(ws) ==
    LET env_vars == Get(ws, "env_vars", EmptyMap)
    IN << <<"#!/bin/bash">>, <<>>,
          <<"cd ">> \o shell_quote(<<WorkingDir(ws)>>), <<>> >>
       \o (IF env_vars # EmptyMap
           THEN << <<"# Environment variables">> >>
                \o EnvLines(env_vars, DOMAIN env_vars, FALSE) \o << <<>> >>
           ELSE <<>>)
       \o (IF WantsClaudeMd(ws)
           THEN << <<"# Create CLAUDE.md if it doesn't exist">>,
                   <<"if [ ! -f ">> \o shell_quote(ClaudeMdPath(ws)) \o <<" ]; then">>,
                   <<"    cat > ">> \o shell_quote(ClaudeMdPath(ws))
                        \o <<" << 'CLAUDE_MD_EOF'">> >>
                \o ws.claude_md_content
                \o << <<"CLAUDE_MD_EOF">>, <<"fi">>, <<>> >>
           ELSE <<>>)
       \o << <<"# Launch Claude Code">>, JoinQuoted(build_command(ws), 1, FALSE), <<>> >>

\* for line in content.split('\n'): lines.append(f'    echo {line}>>{path}')
EchoLines(content, path) ==
    [i \in 1..Len(content) |-> <<"    echo ">> \o content[i] \o <<">>">> \o path]

build_launch_script_windows(ws) ==
    LET env_vars == Get(ws, "env_vars", EmptyMap)
    IN << <<"@echo off">>, <<>>,
          <<"cd /d \"", WorkingDir(ws), "\"">>, <<>> >>
       \o (IF env_vars # EmptyMap
           THEN << <<"REM Environment variables">> >>
                \o EnvLines(env_vars, DOMAIN env_vars, TRUE) \o << <<>> >>
           ELSE <<>>)
       \o (IF WantsClaudeMd(ws)
           THEN << <<"REM Create CLAUDE.md if it doesn't exist">>,
                   <<"if not exist \"">> \o ClaudeMdPath(ws) \o <<"\" (">> >>
                \o EchoLines(ws.claude_md_content, ClaudeMdPath(ws))
                \o << <<")">>, <<>> >>
           ELSE <<>>)
       \o << <<"REM Launch Claude Code">>, JoinQuoted(build_command(ws), 1, TRUE), <<>> >>

----------------------------------------------------------------------------
(* Running a launch script.  Of the file system only CLAUDE.md in the       *)
(* working directory is kept: <<>> when there is no such file, else its     *)
(* lines.  Of the commands a content line can be, `echo x > CLAUDE.md`      *)
(* stands for those that write the file; the others leave it alone.         *)

NoClaudeMd == <<>>

IsIf(line) ==
    Len(line) >= 2 /\ line[1] = "if [ ! -f " /\ line[Len(line)] = " ]; then"

IsCat(line) ==
    Len(line) >= 2 /\ line[1] = "    cat > " /\ line[Len(line)] = " << 'CLAUDE_MD_EOF'"

\* the here-document that starts after line i: its lines up to the first line
\* that is the delimiter
RECURSIVE HereDocBody(_, _)
HereDocBody(lines, i) ==
    IF i >= Len(lines) \/ lines[i + 1] = <<"CLAUDE_MD_EOF">> THEN <<>>
    ELSE <<lines[i + 1]>> \o HereDocBody(lines, i + 1)

\* what a command at the top level or in a taken branch does to CLAUDE.md
Exec(line, md) == IF line = <<"echo x > CLAUDE.md">> THEN << <<"x">> >> ELSE md

\* bash running the script from line i on.  mode: "top", "then" (in a branch
\* that is taken), "skip" (in a branch that is not).  A here-document is read
\* in both kinds of branch and written in a taken one.
RECURSIVE RunBash(_, _, _, _)
RunBash(lines, i, mode, md) ==
    IF i > Len(lines) THEN md
    ELSE LET line == lines[i] IN
         IF IsCat(line)
         THEN LET body == HereDocBody(lines, i)
                  after == i + Len(body) + 2
              IN RunBash(lines, after, mode,
                         IF mode = "skip" THEN md
                         ELSE IF body = <<>> THEN EmptyText ELSE body)
         ELSE IF mode = "top"
         THEN IF IsIf(line)
              THEN RunBash(lines, i + 1, IF md = NoClaudeMd THEN "then" ELSE "skip", md)
              ELSE RunBash(lines, i + 1, "top", Exec(line, md))
         ELSE IF line = <<"fi">>
         THEN RunBash(lines, i + 1, "top", md)
         ELSE RunBash(lines, i + 1, mode, IF mode = "then" THEN Exec(line, md) ELSE md)

IsIfNotExist(line) ==
    Len(line) >= 2 /\ line[1] = "if not exist \"" /\ line[Len(line)] = "\" ("

IsEcho(line) ==
    Len(line) >= 2 /\ line[1] = "    echo " /\ \E i \in DOMAIN line : line[i] = ">>"

\* the pieces of the line from the second one up to the first piece in `stops`
RECURSIVE UpTo(_, _, _)
UpTo(line, i, stops) ==
    IF i > Len(line) \/ line[i] \in stops THEN <<>>
    ELSE <<line[i]>> \o UpTo(line, i + 1, stops)

\* cmd.exe running the script from line i on.  mode: "top", "block" (in a
\* parenthesised block that is taken), "skip" (in one that is not).  A block
\* ends at the first closing parenthesis, also one inside the text of an echo;
\* the text before it is still echoed and the redirection goes with the block.
RECURSIVE RunCmd(_, _, _, _)
RunCmd(lines, i, mode, md) ==
    IF i > Len(lines) THEN md
    ELSE LET line == lines[i] IN
         IF mode = "top"
         THEN IF IsIfNotExist(line)
              THEN RunCmd(lines, i + 1, IF md = NoClaudeMd THEN "block" ELSE "skip", md)
              ELSE IF IsEcho(line)
              THEN RunCmd(lines, i + 1, "top", Append(md, UpTo(line, 2, {">>"})))
              ELSE RunCmd(lines, i + 1, "top", md)
         ELSE IF \E j \in DOMAIN line : line[j] = ")"
         THEN RunCmd(lines, i + 1, "top",
                     IF mode = "block" /\ IsEcho(line)
                     THEN Append(md, UpTo(line, 2, {")"}))
                     ELSE md)
         ELSE RunCmd(lines, i + 1, mode,
                     IF mode = "block" /\ IsEcho(line)
                     THEN Append(md, UpTo(line, 2, {">>"}))
                     ELSE md)

\* launch_workspace writes the script of the platform for the workspace that
\* was picked
BuildLaunchScript ==
    /\ ret.op = "launch_picked"
    /\ ret' = Returned("build_launch_script", Arg(ret), "ok",
                       IF Arg(ret).system = "Windows"
                       THEN build_launch_script_windows(Arg(ret).ws)
                       ELSE build_launch_script(Arg(ret).ws))
    /\ written' = <<>>
    /\ UNCHANGED <<file, now, callers>>

\* launch_in_terminal: the terminal runs the script
RunLaunchScript ==
    /\ ret.op = "build_launch_script"
    /\ ret' = Returned("run_launch_script", Arg(ret), "ok",
                       [ script |-> Value(ret),
                         claude_md |-> IF Arg(ret).system = "Windows"
                                       THEN RunCmd(Value(ret), 1, "top", Arg(ret).claude_md)
                                       ELSE RunBash(Value(ret), 1, "top", Arg(ret).claude_md) ])
    /\ written' = <<>>
    /\ UNCHANGED <<file, now, callers>>

----------------------------------------------------------------------------
(* SpecScript: the launch script of both platforms for workspaces with     *)
(* every content of up to MaxLines lines, run with and without a CLAUDE.md *)
(* in the working directory.                                               *)

ContentLines ==
    { <<>>,
      <<"# Notes">>,
      <<"CLAUDE_MD_EOF">>,
      <<"fi">>,
      <<"echo x > CLAUDE.md">>,
      <<"- Use a virtual environment ", "(", "venv or conda", ")">> }

Contents == UNION {[1..n -> ContentLines] : n \in 1..MaxLines}

ScriptWorkspaces ==
    { [ name |-> NameA, working_dir |-> "/p", model |-> "opus",
        env_vars |-> [KEY |-> "v"],
        init_claude_md |-> init, claude_md_content |-> content ] :
        init \in BOOLEAN, content \in Contents }
    \cup { [name |-> NameA],
           [name |-> NameA, init_claude_md |-> TRUE],
           [name |-> NameA, working_dir |-> "~", append_system_prompt |-> "it's",
            additional_dirs |-> << <<"/", "d", " ", "e">> >>,
            claude_md_content |-> << <<"# Notes">> >>] }

InitScript ==
    /\ file = AbsentFile
    /\ now = 2
    /\ ret \in { Returned("launch_picked",
                           [ws |-> ws, system |-> system, claude_md |-> md],
                           "ok", NoneValue) :
                    ws \in ScriptWorkspaces, system \in {"Linux", "Windows"},
                    md \in {NoClaudeMd, << <<"# Mine">> >>} }
    /\ written = <<>>
    /\ callers = NoCalls

NextScript == BuildLaunchScript \/ RunLaunchScript

SpecScript == InitScript /\ [][NextScript]_vars

----------------------------------------------------------------------------
(* Properties of the launch scripts *)

\* the lines of the script that test for CLAUDE.md
Guards(script) == {i \in DOMAIN script : IsIf(script[i]) \/ IsIfNotExist(script[i])}

\* the lines of the script that write to CLAUDE.md
Writes(script) == {i \in DOMAIN script : IsCat(script[i]) \/ IsEcho(script[i])}

\* C27: the launch script has a block that writes claude_md_content to
\* CLAUDE.md exactly when init_claude_md is set and claude_md_content is not
\* empty; every line that writes the file comes after the line that tests
\* that the file does not exist; and running the script in a directory that
\* has a CLAUDE.md leaves that file as it was.
C27_ClaudeMdKept ==
    ret.op = "run_launch_script" =>
        LET script == Value(ret).script IN
        /\ (Guards(script) # {}) <=> WantsClaudeMd(Arg(ret).ws)
        /\ (Writes(script) # {}) <=> WantsClaudeMd(Arg(ret).ws)
        /\ \A i \in Writes(script) : \E g \in Guards(script) : g < i
        /\ Arg(ret).claude_md # NoClaudeMd => Value(ret).claude_md = Arg(ret).claude_md

\* C28: in the bash launch script the here-document, which ends at the first
\* line that is the delimiter CLAUDE_MD_EOF, is claude_md_content line for
\* line, and what follows it is the script's own delimiter line, `fi`, and
\* the launch of claude.
C28_HereDocIsContent ==
    ( /\ ret.op = "build_launch_script"
      /\ Arg(ret).system # "Windows"
      /\ WantsClaudeMd(Arg(ret).ws) ) =>
        \E i \in DOMAIN Value(ret) :
            /\ IsCat(Value(ret)[i])
            /\ HereDocBody(Value(ret), i) = Arg(ret).ws.claude_md_content
            /\ Len(Value(ret)) = i + Len(Arg(ret).ws.claude_md_content) + 6

----------------------------------------------------------------------------
(* Counters and orders *)

\* C29: while a workspace name stays in the store, no call makes that
\* workspace's use_count smaller.
C29_UseCountMonotone ==
    [][ \A n \in DOMAIN Workspaces(file) \cap DOMAIN Workspaces(file') :
            Get(Workspaces(file')[n], "use_count", 0) >= Get(Workspaces(file)[n], "use_count", 0)
      ]_vars

\* C30: the groups of the store have pairwise distinct `order` values.
C30_OrdersDistinct ==
    \A g, h \in DOMAIN Groups(file) :
        g # h => Get(Groups(file)[g], "order", NoneValue) # Get(Groups(file)[h], "order", NoneValue)

====
